---- MODULE Spec2Model ----
(***************************************************************************)
(* State-machine model of testtrackpro.py: the TTP client's edit contexts  *)
(* (_TTPEditContext), the resolved save<Table>/cancelSave<Table> wrappers   *)
(* (TTP._call_context_method) and the module's status helpers.              *)
(*                                                                          *)
(* One TTP client.  The remote service is an environment: every RPC         *)
(* nondeterministically succeeds or fails in one of the ways the transport  *)
(* can fail.  User code is an environment too: it opens `with` scopes,      *)
(* mutates entities, raises and catches exceptions.                         *)
(***************************************************************************)
EXTENDS Integers, Sequences, FiniteSets, TLC

VARIABLES
    ctx,      \* ctx[c]: the fields of the c-th _TTPEditContext (exists = FALSE: not constructed)
    scope,    \* scope[c]: position of the `with` statement of context c
    stack,    \* the open `with` scopes, innermost last
    pending,  \* the exception propagating in user code (NoErr: none)
    last,     \* what the handler that ran last did: its RPCs, its result
    released_by, \* released_by[c]: how the lease of context c was first given back: "explicit"
                 \* (a commit or discard call of user code), "exit" (__exit__), "no" (not yet)
    made_with, \* made_with[c]: the cookie the client held when context c was constructed
    sess,     \* the client's _cookie, _database_name, _username, _password
    cache,    \* the client's __method_cache: a dict name -> callable
    lookups,  \* lookups[name]: how often getattr(self._client.service, name) ran in
              \* __getattr__ (no entry: never)
    content   \* the array content suds hands to Encoded.cast, with the schema of the encoder

vars == <<ctx, scope, stack, pending, last, released_by, made_with, sess, cache, lookups,
         content>>

\* the state of the TTP object outside its edit contexts
client == <<sess, cache, lookups>>

(***************************************************************************)
(* Bounds of the model                                                      *)
(***************************************************************************)
MaxCtx == 1          \* edit contexts constructed in one run of Spec
MaxNested == 2       \* edit contexts constructed in one run of SpecNested
MaxRec == 1          \* record ids 1..MaxRec known to the service
MaxTok == 2          \* cookies 1..MaxTok the service answers a logon with
MaxLookups == 2      \* lookups of one name on the service in one run
MaxLen == 2          \* elements of an array that is encoded

Ctxs      == 1..MaxCtx
NestedCtxs == 1..MaxNested
RecordIds == 1..MaxRec
Tables    == {"Defect", "Task"}     \* tables of the resolved save<Table>/cancelSave<Table>
EditTables == {"Defect"}           \* tables of the edit<Table> calls user code makes
Summaries == {"new"}              \* values user code assigns to the one entity field modelled

(***************************************************************************)
(* Operation names                                                          *)
(***************************************************************************)
\* a name is the sequence of its characters
edit       == <<"e", "d", "i", "t">>
save       == <<"s", "a", "v", "e">>
cancelSave == <<"c", "a", "n", "c", "e", "l", "S", "a", "v", "e">>
get        == <<"g", "e", "t">>
Defect     == <<"D", "e", "f", "e", "c", "t">>
Bogus      == <<"B", "o", "g", "u", "s">>
Task       == <<"T", "a", "s", "k">>
ByRecordID == <<"B", "y", "R", "e", "c", "o", "r", "d", "I", "D">>

\* the operations of the service's WSDL that the model resolves
ServiceMethods ==
    {edit \o Defect, edit \o Defect \o ByRecordID, save \o Defect, cancelSave \o Defect,
     get \o Defect, save \o Task, edit \o Task, edit \o Bogus, cancelSave \o Bogus}
\* the attribute names user code reads on the client
Names == {edit \o Defect, save \o Defect, cancelSave \o Defect, get \o Defect,
          get \o Bogus, save \o Bogus, <<"_", "_", "l", "e", "n", "_", "_">>}
\* the names user code reads to edit, commit and discard a Defect
ContextNames == {edit \o Defect, edit \o Defect \o ByRecordID, save \o Defect,
                 cancelSave \o Defect, save \o Task, get \o Defect}

(***************************************************************************)
(* Values                                                                   *)
(***************************************************************************)
\* Python None for an optional value is the empty tuple, a value v is <<v>>.
None == <<>>
Some(v) == <<v>>

\* Exceptions.  id tells instances apart (`is`): the TTPAPIError a context
\* stores as _lock_error has the id of that context, every other instance 0.
NoErr == [kind |-> "None", code |-> "", id |-> 0]
UserError == [kind |-> "RuntimeError", code |-> "", id |-> 0]
\* a TTPAPIError with fault detail "22" that user code builds and raises itself
ForeignLockError == [kind |-> "TTPAPIError", code |-> "22", id |-> 0]

\* ways one RPC can end: a result, a SOAP fault with detail "22", a SOAP fault
\* with another detail, a urllib2.URLError, any other exception of the transport
Outcomes == {"ok", "fault22", "fault", "urlerror", "raw"}
\* the outcomes drawn for the commit and discard RPCs
ReleaseOutcomes == {"ok", "fault", "raw"}

IsTTPAPIError(e) == e.kind \in {"TTPAPIError", "TTPConnectionError", "TTPLogonError"}

\* e.fault and e.fault.detail == '22'
HasFault22(e) == e.kind = "TTPAPIError" /\ e.code = "22"

\* the RPC as the service sees it
\* the cookie argument of the constructor: the session of another client, cloned
ConstructorCookie == Some(1)

\* a _call_method that hands every RPC the cookie the constructor was given
call_method_cookie_of_constructor == ConstructorCookie

\* TTP._call_method: method(self._cookie, *args, **kwdargs)
call_method_cookie == sess.cookie

\* the RPC as the service sees it; cookie is its first argument, result the
\* cookie a logon RPC answers (None for every other RPC)
Rpc(method, table, arg, out) ==
    [method |-> method, table |-> table, arg |-> arg, out |-> out,
     cookie |-> call_method_cookie, result |-> None]

\* TTP._call_method: the exception it raises for a failed RPC; `id` is the
\* identity of the new exception instance.
call_method_error(out, id) ==
    CASE out = "fault22"  -> [kind |-> "TTPAPIError", code |-> "22", id |-> id]
      [] out = "fault"    -> [kind |-> "TTPAPIError", code |-> "7", id |-> id]
      [] out = "urlerror" -> [kind |-> "TTPConnectionError", code |-> "", id |-> id]
      [] out = "raw"      -> [kind |-> "Exception", code |-> "", id |-> id]
      [] OTHER            -> NoErr

\* TTP.create(name): a fresh empty entity, every field None
create(table) == [cname |-> table, recordid |-> None, summary |-> "None"]

\* the entity an edit<Table> RPC returns for record r
ServerEntity(table, r) == [cname |-> table, recordid |-> Some(r), summary |-> "orig"]

NoCtx == [exists |-> FALSE, table |-> "", ignore_lock_error |-> FALSE,
          locked |-> FALSE, errored |-> FALSE, success |-> FALSE,
          saved |-> FALSE, lock_failed |-> FALSE, lock_error |-> NoErr,
          entity |-> create("")]

(***************************************************************************)
(* _TTPEditContext                                                          *)
(***************************************************************************)
\* mutant of __init__: _lock_failed keeps its initial True after a granted lock
EditContext_init_failed_kept(c, table, r, ignoreEditLockError, out) ==
    LET base == [exists |-> TRUE, table |-> table,
                 ignore_lock_error |-> ignoreEditLockError,
                 locked |-> FALSE, errored |-> FALSE, success |-> FALSE,
                 saved |-> FALSE, lock_failed |-> TRUE, lock_error |-> NoErr,
                 entity |-> create("")]
        rpcs == <<Rpc("edit", table, Some(r), out)>>
        e    == call_method_error(out, c)
    IN  IF out = "ok"
        THEN [x |-> [base EXCEPT !.entity = ServerEntity(table, r),
                                 !.locked = TRUE],
              rpcs |-> rpcs, raised |-> NoErr]
        ELSE IF IsTTPAPIError(e)
        THEN IF ignoreEditLockError /\ HasFault22(e)
             THEN [x |-> [base EXCEPT !.lock_error = e, !.entity = create(table)],
                   rpcs |-> rpcs, raised |-> NoErr]
             ELSE [x |-> NoCtx, rpcs |-> rpcs, raised |-> [e EXCEPT !.id = 0]]
        ELSE [x |-> NoCtx, rpcs |-> rpcs, raised |-> [e EXCEPT !.id = 0]]

\* mutant of __init__: the denied context keeps the entity it asked for in
\* place of a fresh empty one
EditContext_init_no_placeholder(c, table, r, ignoreEditLockError, out) ==
    LET base == [exists |-> TRUE, table |-> table,
                 ignore_lock_error |-> ignoreEditLockError,
                 locked |-> FALSE, errored |-> FALSE, success |-> FALSE,
                 saved |-> FALSE, lock_failed |-> TRUE, lock_error |-> NoErr,
                 entity |-> create("")]
        rpcs == <<Rpc("edit", table, Some(r), out)>>
        e    == call_method_error(out, c)
    IN  IF out = "ok"
        THEN [x |-> [base EXCEPT !.entity = ServerEntity(table, r),
                                 !.lock_failed = FALSE, !.locked = TRUE],
              rpcs |-> rpcs, raised |-> NoErr]
        ELSE IF IsTTPAPIError(e)
        THEN IF ignoreEditLockError /\ HasFault22(e)
             THEN [x |-> [base EXCEPT !.lock_error = e, !.entity = ServerEntity(table, r)],
                   rpcs |-> rpcs, raised |-> NoErr]
             ELSE [x |-> NoCtx, rpcs |-> rpcs, raised |-> [e EXCEPT !.id = 0]]
        ELSE [x |-> NoCtx, rpcs |-> rpcs, raised |-> [e EXCEPT !.id = 0]]

\* mutant of __init__: with the flag set every TTPAPIError is tolerated, not
\* only fault "22"
EditContext_init_any_fault(c, table, r, ignoreEditLockError, out) ==
    LET base == [exists |-> TRUE, table |-> table,
                 ignore_lock_error |-> ignoreEditLockError,
                 locked |-> FALSE, errored |-> FALSE, success |-> FALSE,
                 saved |-> FALSE, lock_failed |-> TRUE, lock_error |-> NoErr,
                 entity |-> create("")]
        rpcs == <<Rpc("edit", table, Some(r), out)>>
        e    == call_method_error(out, c)
    IN  IF out = "ok"
        THEN [x |-> [base EXCEPT !.entity = ServerEntity(table, r),
                                 !.lock_failed = FALSE, !.locked = TRUE],
              rpcs |-> rpcs, raised |-> NoErr]
        ELSE IF IsTTPAPIError(e)
        THEN IF ignoreEditLockError
             THEN [x |-> [base EXCEPT !.lock_error = e, !.entity = create(table)],
                   rpcs |-> rpcs, raised |-> NoErr]
             ELSE [x |-> NoCtx, rpcs |-> rpcs, raised |-> [e EXCEPT !.id = 0]]
        ELSE [x |-> NoCtx, rpcs |-> rpcs, raised |-> [e EXCEPT !.id = 0]]

\* mutant of __init__: _locked starts True, so a denied context counts as held
EditContext_init_locked(c, table, r, ignoreEditLockError, out) ==
    LET base == [exists |-> TRUE, table |-> table,
                 ignore_lock_error |-> ignoreEditLockError,
                 locked |-> TRUE, errored |-> FALSE, success |-> FALSE,
                 saved |-> FALSE, lock_failed |-> TRUE, lock_error |-> NoErr,
                 entity |-> create("")]
        rpcs == <<Rpc("edit", table, Some(r), out)>>
        e    == call_method_error(out, c)
    IN  IF out = "ok"
        THEN [x |-> [base EXCEPT !.entity = ServerEntity(table, r),
                                 !.lock_failed = FALSE, !.locked = TRUE],
              rpcs |-> rpcs, raised |-> NoErr]
        ELSE IF IsTTPAPIError(e)
        THEN IF ignoreEditLockError /\ HasFault22(e)
             THEN [x |-> [base EXCEPT !.lock_error = e, !.entity = create(table)],
                   rpcs |-> rpcs, raised |-> NoErr]
             ELSE [x |-> NoCtx, rpcs |-> rpcs, raised |-> [e EXCEPT !.id = 0]]
        ELSE [x |-> NoCtx, rpcs |-> rpcs, raised |-> [e EXCEPT !.id = 0]]

\* _TTPEditContext.__init__: x is the constructed context (meaningful when
\* raised = NoErr), raised the exception that leaves the constructor.
EditContext_init(c, table, r, ignoreEditLockError, out) ==
    LET base == [exists |-> TRUE, table |-> table,
                 ignore_lock_error |-> ignoreEditLockError,
                 locked |-> FALSE, errored |-> FALSE, success |-> FALSE,
                 saved |-> FALSE, lock_failed |-> TRUE, lock_error |-> NoErr,
                 entity |-> create("")]
        rpcs == <<Rpc("edit", table, Some(r), out)>>
        e    == call_method_error(out, c)
    IN  IF out = "ok"
        THEN [x |-> [base EXCEPT !.entity = ServerEntity(table, r),
                                 !.lock_failed = FALSE, !.locked = TRUE],
              rpcs |-> rpcs, raised |-> NoErr]
        ELSE IF IsTTPAPIError(e)
        THEN IF ignoreEditLockError /\ HasFault22(e)
             THEN [x |-> [base EXCEPT !.lock_error = e, !.entity = create(table)],
                   rpcs |-> rpcs, raised |-> NoErr]
             ELSE [x |-> NoCtx, rpcs |-> rpcs, raised |-> [e EXCEPT !.id = 0]]
        ELSE [x |-> NoCtx, rpcs |-> rpcs, raised |-> [e EXCEPT !.id = 0]]

\* mutant of save: the commit succeeds but _saved is not set
EditContext_save_unmarked(x, out) ==
    IF ~x.locked
    THEN [x |-> x, rpcs |-> <<>>, raised |-> NoErr]
    ELSE IF out = "ok"
    THEN [x |-> [x EXCEPT !.locked = FALSE, !.success = TRUE],
          rpcs |-> <<Rpc("save", x.table, x.entity, out)>>, raised |-> NoErr]
    ELSE [x |-> x, rpcs |-> <<Rpc("save", x.table, x.entity, out)>>,
          raised |-> call_method_error(out, 0)]

\* mutant of save: the commit is issued whether or not the lock is held
EditContext_save_unguarded(x, out) ==
    IF out = "ok"
    THEN [x |-> [x EXCEPT !.locked = FALSE, !.success = TRUE, !.saved = TRUE],
          rpcs |-> <<Rpc("save", x.table, x.entity, out)>>, raised |-> NoErr]
    ELSE [x |-> x, rpcs |-> <<Rpc("save", x.table, x.entity, out)>>,
          raised |-> call_method_error(out, 0)]

\* _TTPEditContext.save
EditContext_save(x, out) ==
    IF ~x.locked
    THEN [x |-> x, rpcs |-> <<>>, raised |-> NoErr]
    ELSE IF out = "ok"
    THEN [x |-> [x EXCEPT !.locked = FALSE, !.success = TRUE, !.saved = TRUE],
          rpcs |-> <<Rpc("save", x.table, x.entity, out)>>, raised |-> NoErr]
    ELSE [x |-> x, rpcs |-> <<Rpc("save", x.table, x.entity, out)>>,
          raised |-> call_method_error(out, 0)]

\* _TTPEditContext.cancelSave
EditContext_cancelSave(x, out) ==
    IF ~x.locked
    THEN [x |-> x, rpcs |-> <<>>, raised |-> NoErr]
    ELSE IF out = "ok"
    THEN [x |-> [x EXCEPT !.locked = FALSE, !.success = TRUE, !.saved = FALSE],
          rpcs |-> <<Rpc("cancelSave", x.table, x.entity.recordid, out)>>,
          raised |-> NoErr]
    ELSE [x |-> x, rpcs |-> <<Rpc("cancelSave", x.table, x.entity.recordid, out)>>,
          raised |-> call_method_error(out, 0)]

\* mutant of __exit__: the discard on the exception path is not wrapped in
\* try/except, so its error leaves __exit__
EditContext_exit_leaky(x, exc, o1, o2) ==
    LET x1 == IF exc # NoErr THEN [x EXCEPT !.errored = TRUE] ELSE x
    IN  IF ~x1.locked
        THEN [x |-> x1, rpcs |-> <<>>, raised |-> NoErr,
              ret |-> (x1.ignore_lock_error /\ exc = x1.lock_error)]
        ELSE IF exc # NoErr
        THEN LET r == EditContext_cancelSave(x1, o1)
             IN  [x |-> [r.x EXCEPT !.success = FALSE], rpcs |-> r.rpcs,
                  raised |-> r.raised, ret |-> FALSE]
        ELSE LET s == EditContext_save(x1, o1)
             IN  IF s.raised = NoErr
                 THEN [x |-> s.x, rpcs |-> s.rpcs, raised |-> NoErr, ret |-> FALSE]
                 ELSE LET r == EditContext_cancelSave([s.x EXCEPT !.errored = TRUE], o2)
                      IN  [x |-> r.x, rpcs |-> s.rpcs \o r.rpcs,
                           raised |-> s.raised, ret |-> FALSE]

\* mutant of __exit__: after a failed commit the error of a failed discard is
\* raised in place of the commit error
EditContext_exit_masking(x, exc, o1, o2) ==
    LET x1 == IF exc # NoErr THEN [x EXCEPT !.errored = TRUE] ELSE x
    IN  IF ~x1.locked
        THEN [x |-> x1, rpcs |-> <<>>, raised |-> NoErr,
              ret |-> (x1.ignore_lock_error /\ exc = x1.lock_error)]
        ELSE IF exc # NoErr
        THEN LET r == EditContext_cancelSave(x1, o1)
             IN  [x |-> [r.x EXCEPT !.success = FALSE], rpcs |-> r.rpcs,
                  raised |-> NoErr, ret |-> FALSE]
        ELSE LET s == EditContext_save(x1, o1)
             IN  IF s.raised = NoErr
                 THEN [x |-> s.x, rpcs |-> s.rpcs, raised |-> NoErr, ret |-> FALSE]
                 ELSE LET r == EditContext_cancelSave([s.x EXCEPT !.errored = TRUE], o2)
                      IN  [x |-> r.x, rpcs |-> s.rpcs \o r.rpcs,
                           raised |-> IF r.raised # NoErr THEN r.raised ELSE s.raised,
                           ret |-> FALSE]

\* mutant of __exit__: any TTPAPIError with fault "22" is swallowed, not only
\* the instance this context stored
EditContext_exit_by_code(x, exc, o1, o2) ==
    LET x1 == IF exc # NoErr THEN [x EXCEPT !.errored = TRUE] ELSE x
    IN  IF ~x1.locked
        THEN [x |-> x1, rpcs |-> <<>>, raised |-> NoErr,
              ret |-> (x1.ignore_lock_error /\ HasFault22(exc))]
        ELSE IF exc # NoErr
        THEN LET r == EditContext_cancelSave(x1, o1)
             IN  [x |-> [r.x EXCEPT !.success = FALSE], rpcs |-> r.rpcs,
                  raised |-> NoErr, ret |-> FALSE]
        ELSE LET s == EditContext_save(x1, o1)
             IN  IF s.raised = NoErr
                 THEN [x |-> s.x, rpcs |-> s.rpcs, raised |-> NoErr, ret |-> FALSE]
                 ELSE LET r == EditContext_cancelSave([s.x EXCEPT !.errored = TRUE], o2)
                      IN  [x |-> r.x, rpcs |-> s.rpcs \o r.rpcs,
                           raised |-> s.raised, ret |-> FALSE]

\* mutant of __exit__: a failed commit does not set the errored flag
EditContext_exit_unflagged(x, exc, o1, o2) ==
    LET x1 == IF exc # NoErr THEN [x EXCEPT !.errored = TRUE] ELSE x
    IN  IF ~x1.locked
        THEN [x |-> x1, rpcs |-> <<>>, raised |-> NoErr,
              ret |-> (x1.ignore_lock_error /\ exc = x1.lock_error)]
        ELSE IF exc # NoErr
        THEN LET r == EditContext_cancelSave(x1, o1)
             IN  [x |-> [r.x EXCEPT !.success = FALSE], rpcs |-> r.rpcs,
                  raised |-> NoErr, ret |-> FALSE]
        ELSE LET s == EditContext_save(x1, o1)
             IN  IF s.raised = NoErr
                 THEN [x |-> s.x, rpcs |-> s.rpcs, raised |-> NoErr, ret |-> FALSE]
                 ELSE LET r == EditContext_cancelSave(s.x, o2)
                      IN  [x |-> r.x, rpcs |-> s.rpcs \o r.rpcs,
                           raised |-> s.raised, ret |-> FALSE]

\* _TTPEditContext.__exit__(exc_type, exc_value, traceback): exc is exc_value
\* (NoErr: no exception), o1 and o2 the outcomes of the RPCs it may issue.
\* ret is the return value (TRUE swallows exc), raised what __exit__ raises.
EditContext_exit(x, exc, o1, o2) ==
    LET x1 == IF exc # NoErr THEN [x EXCEPT !.errored = TRUE] ELSE x
    IN  IF ~x1.locked
        THEN [x |-> x1, rpcs |-> <<>>, raised |-> NoErr,
              ret |-> (x1.ignore_lock_error /\ exc = x1.lock_error)]
        ELSE IF exc # NoErr
        THEN LET r == EditContext_cancelSave(x1, o1)
             IN  [x |-> [r.x EXCEPT !.success = FALSE], rpcs |-> r.rpcs,
                  raised |-> NoErr, ret |-> FALSE]
        ELSE LET s == EditContext_save(x1, o1)
             IN  IF s.raised = NoErr
                 THEN [x |-> s.x, rpcs |-> s.rpcs, raised |-> NoErr, ret |-> FALSE]
                 ELSE LET r == EditContext_cancelSave([s.x EXCEPT !.errored = TRUE], o2)
                      IN  [x |-> r.x, rpcs |-> s.rpcs \o r.rpcs,
                           raised |-> s.raised, ret |-> FALSE]

(***************************************************************************)
(* Module-level status helpers                                              *)
(***************************************************************************)
edit_lock_failed(x) == x.lock_failed
have_edit_lock(x)   == x.locked
has_errored(x)      == x.errored
was_saved(x)        == x.saved

(***************************************************************************)
(* TTP: the client's wrappers around a context                              *)
(***************************************************************************)
\* _call_context_method without `context._locked = False` after the RPC
call_context_method_keeps_lock(x, hasContext, method, table, arg, out) ==
    IF hasContext /\ x.table # table
    THEN [x |-> x, rpcs |-> <<>>,
          raised |-> [kind |-> "TTPAPIError", code |-> "", id |-> 0]]
    ELSE [x |-> x, rpcs |-> <<Rpc(method, table, arg, out)>>,
          raised |-> call_method_error(out, 0)]

\* _call_context_method without the comparison of context.table with table
call_context_method_any_table(x, hasContext, method, table, arg, out) ==
    IF out # "ok"
    THEN [x |-> x, rpcs |-> <<Rpc(method, table, arg, out)>>,
          raised |-> call_method_error(out, 0)]
    ELSE [x |-> IF hasContext THEN [x EXCEPT !.locked = FALSE] ELSE x,
          rpcs |-> <<Rpc(method, table, arg, out)>>, raised |-> NoErr]

\* a _call_context_method that refuses an entity without __context__
call_context_method_requires_context(x, hasContext, method, table, arg, out) ==
    IF ~hasContext \/ x.table # table
    THEN [x |-> x, rpcs |-> <<>>,
          raised |-> [kind |-> "TTPAPIError", code |-> "", id |-> 0]]
    ELSE IF out # "ok"
    THEN [x |-> x, rpcs |-> <<Rpc(method, table, arg, out)>>,
          raised |-> call_method_error(out, 0)]
    ELSE [x |-> [x EXCEPT !.locked = FALSE],
          rpcs |-> <<Rpc(method, table, arg, out)>>, raised |-> NoErr]

\* TTP._call_context_method(method_name, table, modifier, method, entity):
\* x is the context that hasattr(entity, '__context__') finds (hasContext
\* FALSE: the argument carries none), method/table the resolved operation,
\* arg the value handed to the RPC.
call_context_method(x, hasContext, method, table, arg, out) ==
    IF hasContext /\ x.table # table
    THEN [x |-> x, rpcs |-> <<>>,
          raised |-> [kind |-> "TTPAPIError", code |-> "", id |-> 0]]
    ELSE IF out # "ok"
    THEN [x |-> x, rpcs |-> <<Rpc(method, table, arg, out)>>,
          raised |-> call_method_error(out, 0)]
    ELSE [x |-> IF hasContext THEN [x EXCEPT !.locked = FALSE] ELSE x,
          rpcs |-> <<Rpc(method, table, arg, out)>>, raised |-> NoErr]

\* _TTPEditContext.call_method: entity.recordid carries __context__ only when
\* it was not None
RecordidHasContext(x) == x.entity.recordid # None

\* a break_context_on_edit_lock_failure that raises the lock error of the
\* last denied entity
RECURSIVE break_context_raises_last(_)
break_context_raises_last(es) ==
    IF es = <<>> THEN NoErr
    ELSE IF break_context_raises_last(Tail(es)) # NoErr
    THEN break_context_raises_last(Tail(es))
    ELSE ctx[Head(es)].lock_error

\* break_context_on_edit_lock_failure(*entities): the error it raises, NoErr
\* when it returns True.  es is the tuple of contexts of the entities.
RECURSIVE break_context_on_edit_lock_failure(_)
break_context_on_edit_lock_failure(es) ==
    IF es = <<>> THEN NoErr
    ELSE IF ctx[Head(es)].lock_error # NoErr THEN ctx[Head(es)].lock_error
    ELSE break_context_on_edit_lock_failure(Tail(es))

(***************************************************************************)
(* The state machine                                                        *)
(***************************************************************************)
\* the record of one handler run: the operation and its arguments (context c,
\* table of the resolved operation, ignoreEditLockError, exc_value), whether
\* the context was locked when it started, the RPCs it issued in order, the
\* exception it raised and, for __exit__, its return value; cookie is the
\* client's _cookie when the handler started, name and callable the attribute
\* name __getattr__ was given and the callable it returned, args the contexts
\* of the entities break_context_on_edit_lock_failure was given
Done(op, c, table, ignore, exc, held, rpcs, raised, ret) ==
    [op |-> op, c |-> c, table |-> table, ignore |-> ignore, exc |-> exc,
     held |-> held, rpcs |-> rpcs, raised |-> raised, ret |-> ret,
     cookie |-> sess.cookie, name |-> <<>>, callable |-> None, args |-> <<>>]

\* no handler of the library has run since user code last acted
Idle == Done("idle", 0, "", FALSE, NoErr, FALSE, <<>>, NoErr, FALSE)

\* the dict {}; d[k] = v; d.get(k, default)
EmptyDict == [k \in {} |-> None]
Put(d, k, v) == [x \in DOMAIN d \cup {k} |-> IF x = k THEN v ELSE d[x]]
Get(d, k, default) == IF k \in DOMAIN d THEN d[k] ELSE default

\* no array is being encoded
NoContent == [schema |-> {}, aty |-> "", type |-> "", value |-> [name |-> "", item |-> <<>>],
              given |-> <<>>, done |-> FALSE]

\* TTP(url, database_name, username, password, cookie) with a service that
\* answers the constructor's requests; logged tells whether the constructor
\* logged on (no cookie given, all three credentials given)
InitClient(database_name, username, password, cookie, token) ==
    /\ sess = [cookie |-> IF cookie = None /\ database_name # None
                                 /\ username # None /\ password # None
                          THEN Some(token) ELSE cookie,
               database_name |-> database_name,
               username |-> username, password |-> password]
    /\ cache = EmptyDict
    /\ lookups = EmptyDict
    /\ content = NoContent

\* TTP(url, cookie=ConstructorCookie)
Init ==
    /\ ctx = [c \in Ctxs |-> NoCtx]
    /\ scope = [c \in Ctxs |-> "none"]
    /\ stack = <<>>
    /\ pending = NoErr
    /\ released_by = [c \in Ctxs |-> "no"]
    /\ made_with = [c \in Ctxs |-> None]
    /\ InitClient(None, None, None, ConstructorCookie, 1)
    /\ last = Idle

\* the handler op gave the lease of context c back: one of its commit or
\* discard RPCs for the context's table succeeded while the context was locked
NoteRelease(c, op, rpcs) ==
    IF /\ ctx[c].locked
       /\ released_by[c] = "no"
       /\ \E i \in 1..Len(rpcs) : /\ rpcs[i].out = "ok"
                                  /\ rpcs[i].method \in {"save", "cancelSave"}
                                  /\ rpcs[i].table = ctx[c].table
    THEN [released_by EXCEPT ![c] = IF op = "exit" THEN "exit" ELSE "explicit"]
    ELSE released_by

\* an outcome drawn for an RPC that is not issued is not drawn twice
Unused(notIssued, out) == notIssued => out = "ok"

\* user code runs only while no exception is propagating
Running == pending = NoErr

\* entity = ttp.edit<Table>(r, ignoreEditLockError=ignore): contexts are
\* numbered in the order they are constructed
Edit(c, table, r, ignore, out) ==
    /\ Running
    /\ scope[c] = "none"
    /\ \A d \in DOMAIN ctx : d < c => scope[d] # "none"
    /\ LET res == EditContext_init(c, table, r, ignore, out)
       IN  /\ ctx' = IF res.raised = NoErr THEN [ctx EXCEPT ![c] = res.x] ELSE ctx
           /\ scope' = IF res.raised = NoErr THEN [scope EXCEPT ![c] = "new"] ELSE scope
           /\ pending' = res.raised
           /\ last' = Done("edit", c, table, ignore, NoErr, FALSE, res.rpcs, res.raised, FALSE)
           /\ made_with' = IF res.raised = NoErr THEN [made_with EXCEPT ![c] = sess.cookie]
                           ELSE made_with
    /\ UNCHANGED <<stack, released_by, client, content>>

\* `with entity:` calls _TTPEditContext.__enter__
Enter(c) ==
    /\ Running
    /\ scope[c] = "new"
    /\ scope' = [scope EXCEPT ![c] = "in"]
    /\ stack' = Append(stack, c)
    /\ last' = Idle
    /\ UNCHANGED <<ctx, pending, released_by, made_with, client, content>>

\* entity.summary = v (_TTPEditContext.entity is the object user code holds)
Mutate(c, v) ==
    /\ Running
    /\ ctx[c].exists
    /\ ctx[c].entity.summary # v
    /\ ctx' = [ctx EXCEPT ![c].entity.summary = v]
    /\ last' = Idle
    /\ UNCHANGED <<scope, stack, pending, released_by, made_with, client, content>>

\* user code raises an exception of its own
Raise(e) ==
    /\ Running
    /\ stack # <<>>
    /\ pending' = e
    /\ last' = Idle
    /\ UNCHANGED <<ctx, scope, stack, released_by, made_with, client, content>>

\* break_context_on_edit_lock_failure(entities of es)
BreakContext(es) ==
    /\ Running
    /\ stack # <<>>
    /\ \A i \in 1..Len(es) : ctx[es[i]].exists
    /\ pending' = break_context_on_edit_lock_failure(es)
    /\ last' = [Done("break", Head(es), "", FALSE, NoErr, FALSE, <<>>, pending',
                     pending' = NoErr) EXCEPT !.args = es]
    /\ UNCHANGED <<ctx, scope, stack, released_by, made_with, client, content>>

\* the innermost `with` block ends, normally or with the pending exception:
\* the with statement calls __exit__, re-raises unless it returns true
Exit(o1, o2) ==
    /\ stack # <<>>
    /\ stack[Len(stack)] \in DOMAIN ctx
    /\ LET c   == stack[Len(stack)]
           res == EditContext_exit(ctx[c], pending, o1, o2)
       IN  /\ Unused(~ctx[c].locked, o1)
           /\ Unused(~ctx[c].locked \/ pending # NoErr \/ o1 = "ok", o2)
           /\ ctx' = [ctx EXCEPT ![c] = res.x]
           /\ scope' = [scope EXCEPT ![c] = "out"]
           /\ stack' = SubSeq(stack, 1, Len(stack) - 1)
           /\ pending' = IF res.raised # NoErr THEN res.raised
                         ELSE IF res.ret THEN NoErr ELSE pending
           /\ last' = Done("exit", c, ctx[c].table, FALSE, pending, ctx[c].locked,
                           res.rpcs, res.raised, res.ret)
           /\ released_by' = NoteRelease(c, "exit", res.rpcs)
    /\ UNCHANGED <<made_with, client, content>>

\* user code catches the propagating exception (try/except around the call
\* or the with statement)
Catch ==
    /\ pending # NoErr
    /\ pending' = NoErr
    /\ last' = Idle
    /\ UNCHANGED <<ctx, scope, stack, released_by, made_with, client, content>>

\* ttp.save(entity): TTP.save -> _get_edit_context(entity).save()
Save(c, out) ==
    /\ Running
    /\ ctx[c].exists
    /\ Unused(~ctx[c].locked, out)
    /\ LET res == EditContext_save(ctx[c], out)
       IN  /\ ctx' = [ctx EXCEPT ![c] = res.x]
           /\ pending' = res.raised
           /\ last' = Done("save", c, ctx[c].table, FALSE, NoErr, ctx[c].locked,
                           res.rpcs, res.raised, FALSE)
           /\ released_by' = NoteRelease(c, "save", res.rpcs)
    /\ UNCHANGED <<scope, stack, made_with, client, content>>

\* ttp.cancelSave(entity): TTP.cancelSave -> _get_edit_context(entity).cancelSave()
CancelSave(c, out) ==
    /\ Running
    /\ ctx[c].exists
    /\ Unused(~ctx[c].locked, out)
    /\ LET res == EditContext_cancelSave(ctx[c], out)
       IN  /\ ctx' = [ctx EXCEPT ![c] = res.x]
           /\ pending' = res.raised
           /\ last' = Done("cancelSave", c, ctx[c].table, FALSE, NoErr, ctx[c].locked,
                           res.rpcs, res.raised, FALSE)
           /\ released_by' = NoteRelease(c, "cancelSave", res.rpcs)
    /\ UNCHANGED <<scope, stack, made_with, client, content>>

\* ttp.save<table>(entity) with the entity of context c
SaveTable(table, c, out) ==
    /\ Running
    /\ ctx[c].exists
    /\ Unused(TRUE /\ ctx[c].table # table, out)
    /\ LET res == call_context_method(ctx[c], TRUE, "save", table, ctx[c].entity, out)
       IN  /\ ctx' = [ctx EXCEPT ![c] = res.x]
           /\ pending' = res.raised
           /\ last' = Done("saveTable", c, table, FALSE, NoErr, ctx[c].locked,
                           res.rpcs, res.raised, FALSE)
           /\ released_by' = NoteRelease(c, "saveTable", res.rpcs)
    /\ UNCHANGED <<scope, stack, made_with, client, content>>

\* ttp.cancelSave<table>(entity.recordid) with the entity of context c
CancelSaveTable(table, c, out) ==
    /\ Running
    /\ ctx[c].exists
    /\ Unused(RecordidHasContext(ctx[c]) /\ ctx[c].table # table, out)
    /\ LET res == call_context_method(ctx[c], RecordidHasContext(ctx[c]), "cancelSave",
                                      table, ctx[c].entity.recordid, out)
       IN  /\ ctx' = [ctx EXCEPT ![c] = res.x]
           /\ pending' = res.raised
           /\ last' = Done("cancelSaveTable", c, table, FALSE, NoErr, ctx[c].locked,
                           res.rpcs, res.raised, FALSE)
           /\ released_by' = NoteRelease(c, "cancelSaveTable", res.rpcs)
    /\ UNCHANGED <<scope, stack, made_with, client, content>>

\* tuples of one or two contexts handed to break_context_on_edit_lock_failure
CtxTuples(S) == {<<c>> : c \in S} \cup {<<c, d>> : c \in S, d \in S}

Next ==
    \/ \E c \in Ctxs, t \in EditTables, r \in RecordIds, i \in BOOLEAN, o \in Outcomes :
          Edit(c, t, r, i, o)
    \/ \E c \in Ctxs : Enter(c)
    \/ \E c \in Ctxs, v \in Summaries : Mutate(c, v)
    \/ \E e \in {UserError, ForeignLockError} : Raise(e)
    \/ \E es \in CtxTuples(Ctxs) : BreakContext(es)
    \/ \E o1 \in ReleaseOutcomes, o2 \in ReleaseOutcomes : Exit(o1, o2)
    \/ Catch
    \/ \E c \in Ctxs, o \in ReleaseOutcomes : Save(c, o)
    \/ \E c \in Ctxs, o \in ReleaseOutcomes : CancelSave(c, o)
    \/ \E t \in Tables, c \in Ctxs, o \in ReleaseOutcomes : SaveTable(t, c, o)
    \/ \E t \in Tables, c \in Ctxs, o \in ReleaseOutcomes : CancelSaveTable(t, c, o)

Spec == Init /\ [][Next]_vars

(***************************************************************************)
(* save<Table> on an entity that carries no edit context                    *)
(***************************************************************************)
\* ttp.save<table>(entity) with the entity ttp.get<cname>(r) returned:
\* hasattr(entity, '__context__') is false, so no context is looked up
SavePlain(table, cname, r, out) ==
    /\ Running
    /\ LET res == call_context_method(NoCtx, FALSE, "save", table,
                                      ServerEntity(cname, r), out)
       IN  /\ pending' = res.raised
           /\ last' = Done("savePlain", 0, table, FALSE, NoErr, FALSE,
                           res.rpcs, res.raised, FALSE)
    /\ UNCHANGED <<ctx, scope, stack, released_by, made_with, client, content>>

NextPlain ==
    \/ \E c \in Ctxs, t \in EditTables, r \in RecordIds, i \in BOOLEAN, o \in Outcomes :
          Edit(c, t, r, i, o)
    \/ \E c \in Ctxs : Enter(c)
    \/ \E c \in Ctxs, v \in Summaries : Mutate(c, v)
    \/ \E t \in Tables, n \in Tables, r \in RecordIds, o \in ReleaseOutcomes :
          SavePlain(t, n, r, o)
    \/ Raise(UserError)
    \/ \E o1 \in ReleaseOutcomes, o2 \in ReleaseOutcomes : Exit(o1, o2)
    \/ Catch

SpecPlain == Init /\ [][NextPlain]_vars

(***************************************************************************)
(* Nested `with` scopes: several contexts, each edit<Table> call either     *)
(* granted or refused with fault "22", user code that enters and leaves     *)
(* the scopes, releases contexts early, raises, and breaks out with         *)
(* break_context_on_edit_lock_failure.                                      *)
(***************************************************************************)
InitNested ==
    /\ ctx = [c \in NestedCtxs |-> NoCtx]
    /\ scope = [c \in NestedCtxs |-> "none"]
    /\ stack = <<>>
    /\ pending = NoErr
    /\ released_by = [c \in NestedCtxs |-> "no"]
    /\ made_with = [c \in NestedCtxs |-> None]
    /\ InitClient(None, None, None, ConstructorCookie, 1)
    /\ last = Idle

NextNested ==
    \/ \E c \in NestedCtxs, t \in EditTables, i \in BOOLEAN, o \in Outcomes :
          Edit(c, t, 1, i, o)
    \/ \E c \in NestedCtxs : Enter(c)
    \/ \E e \in {UserError, ForeignLockError} : Raise(e)
    \/ \E es \in CtxTuples(NestedCtxs) : BreakContext(es)
    \/ \E o1 \in {"ok", "fault"}, o2 \in {"ok", "fault"} : Exit(o1, o2)
    \/ Catch
    \/ \E c \in NestedCtxs, o \in {"ok", "fault"} : CancelSave(c, o)
    \/ \E c \in NestedCtxs : Save(c, "ok")

SpecNested == InitNested /\ [][NextNested]_vars

(***************************************************************************)
(* TTP: the session (logon, logoff, the client as a `with` scope)           *)
(***************************************************************************)
\* ways the logoff RPC can end: "dropped" is a failure whose text is
\* "Server raised fault: 'Session Dropped.'"
LogoffOutcomes == {"ok", "dropped", "fault", "urlerror", "raw"}
\* ways the logon RPC can end
LogonOutcomes == {"ok", "fault", "urlerror", "raw"}

\* cookies the service answers a logon with
Tokens == 1..MaxTok
\* the values user code passes for a database name, a username, a password
\* (None: the argument is left out)
DatabaseNames == {None, Some("db")}
Usernames     == {None, Some("alice")}
Passwords     == {None, Some("secret")}

\* TTPLogonError(e) for the failure e of an RPC
logon_error(out) ==
    [kind |-> "TTPLogonError", code |-> IF out = "fault" THEN "7" ELSE "", id |-> 0]

\* self._client.service.DatabaseLogoff(self._cookie)
LogoffRpc(cookie, out) ==
    [method |-> "DatabaseLogoff", table |-> "", arg |-> <<>>, out |-> out,
     cookie |-> cookie, result |-> None]

\* self._client.service.DatabaseLogon / ProjectLogon(database, username,
\* password): called on the service directly, with no cookie argument
LogonRpc(method, args, out, token) ==
    [method |-> method, table |-> "", arg |-> args, out |-> out,
     cookie |-> None, result |-> IF out = "ok" THEN Some(token) ELSE None]

\* a DatabaseLogoff that keeps the cookie when the RPC fails
database_logoff_keeps_on_failure(s, ignore_exceptions, out) ==
    IF s.cookie = None
    THEN [s |-> s, rpcs |-> <<>>, raised |-> NoErr]
    ELSE [s |-> IF out = "ok" THEN [s EXCEPT !.cookie = None] ELSE s,
          rpcs |-> <<LogoffRpc(s.cookie, out)>>,
          raised |-> IF out \notin {"ok", "dropped"} /\ ~ignore_exceptions
                     THEN logon_error(out) ELSE NoErr]

\* a DatabaseLogoff that treats 'Session Dropped.' like any other failure
database_logoff_dropped_raises(s, ignore_exceptions, out) ==
    IF s.cookie = None
    THEN [s |-> s, rpcs |-> <<>>, raised |-> NoErr]
    ELSE [s |-> [s EXCEPT !.cookie = None],
          rpcs |-> <<LogoffRpc(s.cookie, out)>>,
          raised |-> IF out # "ok" /\ ~ignore_exceptions
                     THEN logon_error(out) ELSE NoErr]

\* a DatabaseLogoff that calls the service whether or not a cookie is held
database_logoff_always_calls(s, ignore_exceptions, out) ==
    [s |-> [s EXCEPT !.cookie = None],
     rpcs |-> <<LogoffRpc(s.cookie, out)>>,
     raised |-> IF out \notin {"ok", "dropped"} /\ ~ignore_exceptions
                THEN logon_error(out) ELSE NoErr]

\* TTP.DatabaseLogoff(ignore_exceptions) on the client fields s
database_logoff(s, ignore_exceptions, out) ==
    IF s.cookie = None
    THEN [s |-> s, rpcs |-> <<>>, raised |-> NoErr]
    ELSE [s |-> [s EXCEPT !.cookie = None],
          rpcs |-> <<LogoffRpc(s.cookie, out)>>,
          raised |-> IF out \notin {"ok", "dropped"} /\ ~ignore_exceptions
                     THEN logon_error(out) ELSE NoErr]

\* the fields after DatabaseLogon/ProjectLogon stored its arguments:
\* `if password: self._password = username`
store_credentials(s, database_name, username, password) ==
    [s EXCEPT !.database_name = IF database_name # None THEN database_name ELSE @,
              !.username = IF username # None THEN username ELSE @,
              !.password = IF password # None THEN username ELSE @]

\* a logon that does not log off first
logon_without_logoff(s, method, database_name, username, password, o1, o2, token) ==
    LET s2 == store_credentials(s, database_name, username, password)
        rpc == LogonRpc(method,
                        <<IF method = "ProjectLogon" THEN database_name
                          ELSE s2.database_name, s2.username, s2.password>>,
                        o2, token)
    IN  IF method = "ProjectLogon" /\ database_name = None
        THEN [s |-> s, rpcs |-> <<>>,
              raised |-> [kind |-> "AttributeError", code |-> "", id |-> 0]]
        ELSE IF s2.database_name = None \/ s2.username = None \/ s2.password = None
        THEN [s |-> s2, rpcs |-> <<>>,
              raised |-> [kind |-> "TTPAPIError", code |-> "", id |-> 0]]
        ELSE IF o2 = "ok"
        THEN [s |-> [s2 EXCEPT !.cookie = Some(token)], rpcs |-> <<rpc>>, raised |-> NoErr]
        ELSE [s |-> s2, rpcs |-> <<rpc>>,
              raised |-> IF o2 = "fault" THEN logon_error(o2)
                         ELSE call_method_error(o2, 0)]

\* a logon that puts the previous cookie back when it fails after the
\* implicit logoff
logon_restoring(s, method, database_name, username, password, o1, o2, token) ==
    LET off == database_logoff(s, FALSE, o1)
        s2  == store_credentials(off.s, database_name, username, password)
        rpc == LogonRpc(method,
                        <<IF method = "ProjectLogon" THEN database_name
                          ELSE s2.database_name, s2.username, s2.password>>,
                        o2, token)
    IN  IF off.raised # NoErr
        THEN off
        ELSE IF method = "ProjectLogon" /\ database_name = None
        THEN [s |-> s, rpcs |-> off.rpcs,
              raised |-> [kind |-> "AttributeError", code |-> "", id |-> 0]]
        ELSE IF s2.database_name = None \/ s2.username = None \/ s2.password = None
        THEN [s |-> [s2 EXCEPT !.cookie = s.cookie], rpcs |-> off.rpcs,
              raised |-> [kind |-> "TTPAPIError", code |-> "", id |-> 0]]
        ELSE IF o2 = "ok"
        THEN [s |-> [s2 EXCEPT !.cookie = Some(token)],
              rpcs |-> Append(off.rpcs, rpc), raised |-> NoErr]
        ELSE [s |-> [s2 EXCEPT !.cookie = s.cookie], rpcs |-> Append(off.rpcs, rpc),
              raised |-> IF o2 = "fault" THEN logon_error(o2)
                         ELSE call_method_error(o2, 0)]

\* TTP.DatabaseLogon(database_name, username, password) and
\* TTP.ProjectLogon(CProject, username, password) on the client fields s;
\* for ProjectLogon database_name is CProject.database.name, None: no CProject
logon(s, method, database_name, username, password, o1, o2, token) ==
    LET off == database_logoff(s, FALSE, o1)
        s2  == store_credentials(off.s, database_name, username, password)
        rpc == LogonRpc(method,
                        <<IF method = "ProjectLogon" THEN database_name
                          ELSE s2.database_name, s2.username, s2.password>>,
                        o2, token)
    IN  IF off.raised # NoErr
        THEN off
        ELSE IF method = "ProjectLogon" /\ database_name = None
        THEN [s |-> off.s, rpcs |-> off.rpcs,
              raised |-> [kind |-> "AttributeError", code |-> "", id |-> 0]]
        ELSE IF s2.database_name = None \/ s2.username = None \/ s2.password = None
        THEN [s |-> s2, rpcs |-> off.rpcs,
              raised |-> [kind |-> "TTPAPIError", code |-> "", id |-> 0]]
        ELSE IF o2 = "ok"
        THEN [s |-> [s2 EXCEPT !.cookie = Some(token)],
              rpcs |-> Append(off.rpcs, rpc), raised |-> NoErr]
        ELSE [s |-> s2, rpcs |-> Append(off.rpcs, rpc),
              raised |-> IF o2 = "fault" THEN logon_error(o2)
                         ELSE call_method_error(o2, 0)]

\* the logon RPC of a handler is issued
LogonIssues(res) ==
    \E i \in 1..Len(res.rpcs) : res.rpcs[i].method \in {"DatabaseLogon", "ProjectLogon"}

\* ttp.DatabaseLogon(...) / ttp.ProjectLogon(...)
Logon(method, database_name, username, password, o1, o2, token) ==
    /\ Running
    /\ Unused(sess.cookie = None, o1)
    /\ LET res == logon(sess, method, database_name, username, password, o1, o2, token)
       IN  /\ Unused(~LogonIssues(res), o2)
           /\ (~LogonIssues(res) \/ o2 # "ok") => token = 1
           /\ sess' = res.s
           /\ pending' = res.raised
           /\ last' = Done("logon", 0, method, FALSE, NoErr, sess.cookie # None,
                           res.rpcs, res.raised, FALSE)
    /\ UNCHANGED <<ctx, scope, stack, released_by, made_with, cache, lookups, content>>

\* ttp.DatabaseLogoff(ignore_exceptions)
DatabaseLogoff(ignore_exceptions, out) ==
    /\ Running
    /\ Unused(sess.cookie = None, out)
    /\ LET res == database_logoff(sess, ignore_exceptions, out)
       IN  /\ sess' = res.s
           /\ pending' = res.raised
           /\ last' = Done("logoff", 0, "", ignore_exceptions, NoErr, sess.cookie # None,
                           res.rpcs, res.raised, FALSE)
    /\ UNCHANGED <<ctx, scope, stack, released_by, made_with, cache, lookups, content>>

\* self._client.service.getProjectList(username, password): called on the
\* service directly, with no cookie argument
ProjectListRpc(username, password, out) ==
    [method |-> "getProjectList", table |-> "", arg |-> <<username, password>>,
     out |-> out, cookie |-> None, result |-> None]

\* a getProjectList that stores the credentials it is given, as a logon does
get_project_list_storing(s, username, password, out) ==
    LET u == IF username = None THEN s.username ELSE username
        p == IF password = None THEN s.password ELSE password
        s2 == [s EXCEPT !.username = u, !.password = p]
    IN  IF u = None \/ p = None
        THEN [s |-> s2, rpcs |-> <<>>,
              raised |-> [kind |-> "TTPAPIError", code |-> "", id |-> 0]]
        ELSE [s |-> s2, rpcs |-> <<ProjectListRpc(u, p, out)>>,
              raised |-> IF out = "fault" THEN logon_error(out)
                         ELSE call_method_error(out, 0)]

\* TTP.getProjectList(username, password) on the client fields s
get_project_list(s, username, password, out) ==
    LET u == IF username = None THEN s.username ELSE username
        p == IF password = None THEN s.password ELSE password
    IN  IF u = None \/ p = None
        THEN [s |-> s, rpcs |-> <<>>,
              raised |-> [kind |-> "TTPAPIError", code |-> "", id |-> 0]]
        ELSE [s |-> s, rpcs |-> <<ProjectListRpc(u, p, out)>>,
              raised |-> IF out = "fault" THEN logon_error(out)
                         ELSE call_method_error(out, 0)]

\* ttp.getProjectList(username, password)
GetProjectList(username, password, out) ==
    /\ Running
    /\ LET res == get_project_list(sess, username, password, out)
       IN  /\ Unused(res.rpcs = <<>>, out)
           /\ sess' = res.s
           /\ pending' = res.raised
           /\ last' = Done("getProjectList", 0, "", FALSE, NoErr, sess.cookie # None,
                           res.rpcs, res.raised, FALSE)
    /\ UNCHANGED <<ctx, scope, stack, released_by, made_with, cache, lookups, content>>

\* the position of the client's own `with` statement on the stack of scopes
ClientScope == 0

\* `with ttp:` calls TTP.__enter__, which returns self
EnterClient ==
    /\ Running
    /\ \A i \in 1..Len(stack) : stack[i] # ClientScope
    /\ stack' = Append(stack, ClientScope)
    /\ last' = Idle
    /\ UNCHANGED <<ctx, scope, pending, released_by, made_with, client, content>>

\* a TTP.__exit__ that does not tolerate the failure of the logoff
client_exit_strict(s, out) == database_logoff(s, FALSE, out)

\* TTP.__exit__(exc_type, exc_value, traceback): returns None
client_exit(s, out) == database_logoff(s, TRUE, out)

\* the `with ttp:` block ends, normally or with the pending exception
ExitClient(out) ==
    /\ stack # <<>>
    /\ stack[Len(stack)] = ClientScope
    /\ Unused(sess.cookie = None, out)
    /\ LET res == client_exit(sess, out)
       IN  /\ sess' = res.s
           /\ stack' = SubSeq(stack, 1, Len(stack) - 1)
           /\ pending' = IF res.raised # NoErr THEN res.raised ELSE pending
           /\ last' = Done("exitClient", 0, "", TRUE, pending, sess.cookie # None,
                           res.rpcs, res.raised, FALSE)
    /\ UNCHANGED <<ctx, scope, released_by, made_with, cache, lookups, content>>

(***************************************************************************)
(* TTP.__getattr__: resolving operation names                               *)
(***************************************************************************)
\* method_name.startswith(prefix)
startswith(name, prefix) ==
    Len(name) >= Len(prefix) /\ SubSeq(name, 1, Len(prefix)) = prefix

\* method_name[n:]
from(name, n) == SubSeq(name, n + 1, Len(name))

\* TTP.__build_method(method_name, method): the callable it returns.  kind
\* is the function the partial wraps, table the table it binds; serial tells
\* apart the objects built for one name (`is`).
build_method(method_name, serial) ==
    IF startswith(method_name, edit)
    THEN [kind |-> "edit", name |-> method_name, table |-> <<>>, serial |-> serial]
    ELSE IF startswith(method_name, save)
    THEN [kind |-> "save", name |-> method_name, table |-> from(method_name, 4),
          serial |-> serial]
    ELSE IF startswith(method_name, cancelSave)
    THEN [kind |-> "cancelSave", name |-> method_name, table |-> from(method_name, 10),
          serial |-> serial]
    ELSE [kind |-> "plain", name |-> method_name, table |-> <<>>, serial |-> serial]

\* suds.MethodNotFound wrapped in TTPAPIError
MethodNotFound == [kind |-> "TTPAPIError", code |-> "", id |-> 0]

\* a __getattr__ that looks the name up and builds the callable on every access
getattr_uncached(name) ==
    IF startswith(name, <<"_", "_">>)
    THEN [cache |-> cache, lookups |-> lookups, ret |-> None,
          raised |-> [kind |-> "TypeError", code |-> "", id |-> 0]]
    ELSE LET looked == Put(lookups, name, Get(lookups, name, 0) + 1)
             built  == build_method(name, looked[name])
         IN  IF name \notin ServiceMethods
             THEN [cache |-> cache, lookups |-> looked, ret |-> None,
                   raised |-> MethodNotFound]
             ELSE [cache |-> Put(cache, name, built), lookups |-> looked,
                   ret |-> Some(built), raised |-> NoErr]

\* TTP.__getattr__(name): the cache and the lookup history after it, the
\* callable it returns (None when it raises) and the exception it raises.
\* The message of the AttributeError for a name that starts with '__' is
\* formatted with one argument for two %s, which raises TypeError.
getattr(name) ==
    IF startswith(name, <<"_", "_">>)
    THEN [cache |-> cache, lookups |-> lookups, ret |-> None,
          raised |-> [kind |-> "TypeError", code |-> "", id |-> 0]]
    ELSE IF name \in DOMAIN cache
    THEN [cache |-> cache, lookups |-> lookups, ret |-> Some(cache[name]), raised |-> NoErr]
    ELSE LET looked == Put(lookups, name, Get(lookups, name, 0) + 1)
             built  == build_method(name, looked[name])
         IN  IF name \notin ServiceMethods
             THEN [cache |-> cache, lookups |-> looked, ret |-> None,
                   raised |-> MethodNotFound]
             ELSE [cache |-> Put(cache, name, built), lookups |-> looked,
                   ret |-> Some(built), raised |-> NoErr]

\* f = ttp.<name>
Resolve(name) ==
    /\ Running
    /\ Get(lookups, name, 0) < MaxLookups
    /\ LET res == getattr(name)
       IN  /\ cache' = res.cache
           /\ lookups' = res.lookups
           /\ pending' = res.raised
           /\ last' = [Done("getattr", 0, "", FALSE, NoErr, name \in DOMAIN cache,
                            <<>>, res.raised, FALSE)
                       EXCEPT !.name = name, !.callable = res.ret]
    /\ UNCHANGED <<ctx, scope, stack, released_by, made_with, sess, content>>

\* f(1) for a cached f = ttp.<name> that wraps TTP._call_method
Call(name, out) ==
    /\ Running
    /\ name \in DOMAIN cache
    /\ cache[name].kind = "plain"
    /\ pending' = call_method_error(out, 0)
    /\ last' = [Done("call", 0, "", FALSE, NoErr, FALSE,
                     <<Rpc("plain", "", name, out)>>, pending', FALSE)
                EXCEPT !.name = name, !.callable = Some(cache[name])]
    /\ UNCHANGED <<ctx, scope, stack, released_by, made_with, sess, cache, lookups, content>>

(***************************************************************************)
(* The session: one client that logs on and off with every combination of   *)
(* arguments and is used as a `with` scope, a service whose logon and       *)
(* logoff RPCs end in every way, user code that raises and catches.         *)
(***************************************************************************)
\* TTP(url, cookie=...), TTP(url) or TTP(url, "db", "alice", "secret")
InitSession ==
    /\ ctx = [c \in Ctxs |-> NoCtx]
    /\ scope = [c \in Ctxs |-> "none"]
    /\ stack = <<>>
    /\ pending = NoErr
    /\ released_by = [c \in Ctxs |-> "no"]
    /\ made_with = [c \in Ctxs |-> None]
    /\ \/ InitClient(None, None, None, ConstructorCookie, 1)
       \/ InitClient(None, None, None, None, 1)
       \/ InitClient(Some("db"), Some("alice"), Some("secret"), None, 1)
    /\ last = Idle

NextSession ==
    \/ \E m \in {"DatabaseLogon", "ProjectLogon"}, d \in DatabaseNames, u \in Usernames,
          p \in Passwords, o1 \in LogoffOutcomes, o2 \in LogonOutcomes, t \in Tokens :
          Logon(m, d, u, p, o1, o2, t)
    \/ \E i \in BOOLEAN, o \in LogoffOutcomes : DatabaseLogoff(i, o)
    \/ \E u \in Usernames, p \in Passwords, o \in LogonOutcomes : GetProjectList(u, p, o)
    \/ EnterClient
    \/ \E o \in LogoffOutcomes : ExitClient(o)
    \/ Raise(UserError)
    \/ Catch

SpecSession == InitSession /\ [][NextSession]_vars

(***************************************************************************)
(* Calls across sessions: one client, constructed with a cookie, that       *)
(* resolves and calls a plain operation and edits one record after the      *)
(* other in edit contexts while it logs off and logs on again; the logon    *)
(* and logoff RPCs succeed.                                                 *)
(***************************************************************************)
NextCalls ==
    \/ \E t \in Tokens :
          Logon("DatabaseLogon", Some("db"), Some("alice"), Some("secret"), "ok", "ok", t)
    \/ DatabaseLogoff(FALSE, "ok")
    \/ Resolve(get \o Defect)
    \/ \E o \in {"ok", "fault"} : Call(get \o Defect, o)
    \/ \E c \in Ctxs, o \in {"ok", "fault"} :
          (\A d \in Ctxs : d < c => scope[d] = "out") /\ Edit(c, "Defect", 1, FALSE, o)
    \/ \E c \in Ctxs : Enter(c)
    \/ \E o1 \in {"ok", "fault"} : Exit(o1, "ok")
    \/ Catch
    \/ \E c \in Ctxs : scope[c] = "in" /\ Save(c, "ok")
    \/ \E c \in Ctxs : scope[c] = "in" /\ CancelSaveTable("Defect", c, "ok")

SpecCalls == Init /\ [][NextCalls]_vars

(***************************************************************************)
(* The resolver: user code reads attribute names on one client              *)
(***************************************************************************)
InitResolve ==
    /\ ctx = [c \in Ctxs |-> NoCtx]
    /\ scope = [c \in Ctxs |-> "none"]
    /\ stack = <<>>
    /\ pending = NoErr
    /\ released_by = [c \in Ctxs |-> "no"]
    /\ made_with = [c \in Ctxs |-> None]
    /\ InitClient(None, None, None, ConstructorCookie, 1)
    /\ last = Idle

NextResolve ==
    \/ \E n \in Names : Resolve(n)
    \/ \E n \in Names, o \in {"ok", "fault"} : Call(n, o)
    \/ Catch

SpecResolve == InitResolve /\ [][NextResolve]_vars

(***************************************************************************)
(* Resolved operations on edit contexts: user code resolves edit<Table>,    *)
(* edit<Table>ByRecordID, save<Table> and cancelSave<Table> and calls the   *)
(* cached callables; the RPCs succeed.                                      *)
(***************************************************************************)
\* method_name.endswith(suffix)
endswith(name, suffix) ==
    Len(name) >= Len(suffix)
    /\ SubSeq(name, Len(name) - Len(suffix) + 1, Len(name)) = suffix

\* method_name[:-n]
upto(name, n) == SubSeq(name, 1, Len(name) - n)

\* a context that takes its table from the method name as it is
context_table_keeps_suffix(method_name) == from(method_name, 4)

\* _TTPEditContext.__init__: self._table for the edit method it was called by
context_table(method_name) ==
    LET edit_name == IF endswith(method_name, ByRecordID)
                     THEN upto(method_name, 10) ELSE method_name
    IN  from(edit_name, 4)

\* entity = f(r) for a cached f = ttp.edit<Table> or ttp.edit<Table>ByRecordID
CallEdit(c, name, r, out) ==
    /\ name \in DOMAIN cache
    /\ cache[name].kind = "edit"
    /\ Edit(c, context_table(name), r, FALSE, out)

\* f(entity) for a cached f = ttp.save<Table>
CallSave(name, c, out) ==
    /\ name \in DOMAIN cache
    /\ cache[name].kind = "save"
    /\ SaveTable(cache[name].table, c, out)

\* f(entity.recordid) for a cached f = ttp.cancelSave<Table>
CallCancelSave(name, c, out) ==
    /\ name \in DOMAIN cache
    /\ cache[name].kind = "cancelSave"
    /\ CancelSaveTable(cache[name].table, c, out)

NextContextNames ==
    \/ \E n \in ContextNames : Resolve(n)
    \/ \E c \in Ctxs, n \in ContextNames : CallEdit(c, n, 1, "ok")
    \/ \E c \in Ctxs, n \in ContextNames : CallSave(n, c, "ok")
    \/ \E c \in Ctxs, n \in ContextNames : CallCancelSave(n, c, "ok")
    \/ \E n \in ContextNames : Call(n, "ok")
    \/ Catch

SpecContextNames == InitResolve /\ [][NextContextNames]_vars

(***************************************************************************)
(* Constructing an edit context on a service that lacks the commit or the   *)
(* discard operation of the table                                           *)
(***************************************************************************)
\* the edit operations user code resolves: Defect has both save and
\* cancelSave, Task no cancelSave, Bogus no save
EditNames == {edit \o Defect, edit \o Defect \o ByRecordID, edit \o Task, edit \o Bogus}

\* TTP._build_partial(method_name): the exception it raises, NoErr when the
\* service has the operation
build_partial(method_name) ==
    IF method_name \in ServiceMethods THEN NoErr ELSE MethodNotFound

\* an __init__ that calls the edit operation before it looks up the commit
\* and the discard operation
EditContext_construct_acquire_first(c, method_name, r, ignoreEditLockError, out) ==
    LET table == context_table(method_name)
        res   == EditContext_init(c, table, r, ignoreEditLockError, out)
    IN  IF res.raised # NoErr
        THEN res
        ELSE IF build_partial(save \o table) # NoErr
        THEN [x |-> NoCtx, rpcs |-> res.rpcs, raised |-> build_partial(save \o table)]
        ELSE IF build_partial(cancelSave \o table) # NoErr
        THEN [x |-> NoCtx, rpcs |-> res.rpcs, raised |-> build_partial(cancelSave \o table)]
        ELSE res

\* _TTPEditContext.__init__(ttp, method_name, method, r, ignoreEditLockError)
\* from its first line: self._save and self._cancel are built before the
\* edit operation is called
EditContext_construct(c, method_name, r, ignoreEditLockError, out) ==
    LET table == context_table(method_name)
    IN  IF build_partial(save \o table) # NoErr
        THEN [x |-> NoCtx, rpcs |-> <<>>, raised |-> build_partial(save \o table)]
        ELSE IF build_partial(cancelSave \o table) # NoErr
        THEN [x |-> NoCtx, rpcs |-> <<>>, raised |-> build_partial(cancelSave \o table)]
        ELSE EditContext_init(c, table, r, ignoreEditLockError, out)

\* entity = f(r, ignoreEditLockError=ignore) for a cached f = ttp.edit<Table>
Construct(c, name, r, ignore, out) ==
    /\ Running
    /\ name \in DOMAIN cache
    /\ cache[name].kind = "edit"
    /\ scope[c] = "none"
    /\ \A d \in DOMAIN ctx : d < c => scope[d] # "none"
    /\ LET res == EditContext_construct(c, name, r, ignore, out)
       IN  /\ Unused(res.rpcs = <<>>, out)
           /\ ctx' = IF res.raised = NoErr THEN [ctx EXCEPT ![c] = res.x] ELSE ctx
           /\ scope' = IF res.raised = NoErr THEN [scope EXCEPT ![c] = "new"] ELSE scope
           /\ pending' = res.raised
           /\ last' = [Done("construct", c, "", ignore, NoErr, FALSE, res.rpcs,
                            res.raised, FALSE) EXCEPT !.name = name]
           /\ made_with' = IF res.raised = NoErr THEN [made_with EXCEPT ![c] = sess.cookie]
                           ELSE made_with
    /\ UNCHANGED <<stack, released_by, client, content>>

NextConstruct ==
    \/ \E n \in EditNames : Resolve(n)
    \/ \E c \in Ctxs, n \in EditNames, r \in RecordIds, i \in BOOLEAN, o \in Outcomes :
          Construct(c, n, r, i, o)
    \/ \E c \in Ctxs : Enter(c)
    \/ \E o1 \in ReleaseOutcomes, o2 \in ReleaseOutcomes : Exit(o1, o2)
    \/ Catch

SpecConstruct == InitResolve /\ [][NextConstruct]_vars

(***************************************************************************)
(* _polymprphic_cast: encoding an array                                     *)
(***************************************************************************)
\* names of the types elements and arrays are declared with
TypeNames == {"CEntity", "CDefect", "CTask"}

\* the elements of an array: a suds Object of a class (untagged), a dict, a
\* nested list, any other value
Obj(class) == [kind |-> "object", class |-> class, sxtype |-> None]
DictEl     == [kind |-> "dict", class |-> "", sxtype |-> None]
ListEl     == [kind |-> "list", class |-> "", sxtype |-> None]
ValueEl    == [kind |-> "value", class |-> "", sxtype |-> None]
Elements   == {Obj(c) : c \in TypeNames} \cup {DictEl, ListEl, ValueEl}

\* the arrays of at most MaxLen elements
Arrays == UNION {[1..n -> Elements] : n \in 0..MaxLen}

\* suds.mx.encoded.TypeQuery(name).execute(schema): the type descriptor of
\* the schema for the name, None when the schema has none
TypeQuery(schema, name) == IF name \in schema THEN Some(name) ELSE None

\* the original cast of suds: every element is tagged with the declared type
cast_element_as_declared(x, ref, schema) ==
    CASE x.kind = "list"   -> x
      [] x.kind = "object" -> [x EXCEPT !.sxtype = ref]
      [] x.kind = "dict"   -> [kind |-> "object", class |-> ref[1], sxtype |-> ref]
      [] OTHER             -> [kind |-> "property", class |-> ref[1], sxtype |-> ref]

\* the body of the loop of _polymprphic_cast for the element x; ref is the
\* descriptor of the declared element type
cast_element(x, ref, schema) ==
    CASE x.kind = "list"   -> x
      [] x.kind = "object" ->
            [x EXCEPT !.sxtype = IF ref[1] = x.class THEN ref
                                 ELSE TypeQuery(schema, x.class)]
      [] x.kind = "dict"   -> [kind |-> "object", class |-> ref[1], sxtype |-> ref]
      [] OTHER             -> [kind |-> "property", class |-> ref[1], sxtype |-> ref]

\* a plain python list as the value of a content: no name
List(items) == [name |-> "", item |-> items]

\* _polymprphic_cast(self, content): content.value afterwards (the array
\* object named after the resolved type of the content, with its items) and
\* the exception raised.  `raise TypeNotFound(qref)` names a variable that
\* does not exist, which raises NameError.
polymprphic_cast(c) ==
    LET ref == TypeQuery(c.schema, c.aty)
    IN  IF ref = None
        THEN [value |-> c.value,
              raised |-> [kind |-> "NameError", code |-> "", id |-> 0]]
        ELSE [value |-> [name |-> c.type,
                         item |-> [i \in 1..Len(c.value.item) |->
                                       cast_element(c.value.item[i], ref, c.schema)]],
              raised |-> NoErr]

\* suds encodes the content: Encoded.cast(content)
Cast ==
    /\ Running
    /\ ~content.done
    /\ LET res == polymprphic_cast(content)
       IN  /\ content' = [content EXCEPT !.value = res.value, !.done = TRUE]
           /\ pending' = res.raised
           /\ last' = Done("cast", 0, "", FALSE, NoErr, FALSE, <<>>, res.raised, FALSE)
    /\ UNCHANGED <<ctx, scope, stack, released_by, made_with, client>>

\* an encoder with any schema is handed any array declared with any element type
InitCast ==
    /\ ctx = [c \in Ctxs |-> NoCtx]
    /\ scope = [c \in Ctxs |-> "none"]
    /\ stack = <<>>
    /\ pending = NoErr
    /\ released_by = [c \in Ctxs |-> "no"]
    /\ made_with = [c \in Ctxs |-> None]
    /\ sess = [cookie |-> ConstructorCookie, database_name |-> None,
               username |-> None, password |-> None]
    /\ cache = EmptyDict
    /\ lookups = EmptyDict
    /\ \E schema \in SUBSET TypeNames, aty \in TypeNames, value \in Arrays :
          content = [schema |-> schema, aty |-> aty, type |-> "CEntityArray",
                     value |-> List(value), given |-> value, done |-> FALSE]
    /\ last = Idle

NextCast ==
    \/ Cast
    \/ Catch

SpecCast == InitCast /\ [][NextCast]_vars

(***************************************************************************)
(* Properties                                                               *)
(***************************************************************************)
\* number of RPCs of one method among those a handler issued
Count(rpcs, method) == Cardinality({i \in 1..Len(rpcs) : rpcs[i].method = method})

\* the last handler was the scope exit of a context that was locked / not locked
ExitedHeld  == last.op = "exit" /\ last.held
CleanExit   == ExitedHeld /\ last.exc = NoErr
FailingExit == ExitedHeld /\ last.exc # NoErr

\* the commit RPC a scope exit issues: save<Table>(entity) with the entity as
\* user code left it
IsCommitOf(rpc, x) == rpc.method = "save" /\ rpc.table = x.table /\ rpc.arg = x.entity
\* the discard RPC: cancelSave<Table>(entity.recordid)
IsDiscardOf(rpc, x) ==
    rpc.method = "cancelSave" /\ rpc.table = x.table /\ rpc.arg = x.entity.recordid

\* C1 (as stated): leaving the scope of a held context with no exception
\* issues the commit RPC exactly once with the entity as mutated, issues no
\* discard RPC, and was_saved is true afterwards when the commit succeeded.
C1_CleanExitNeverDiscards ==
    CleanExit =>
        /\ Count(last.rpcs, "save") = 1
        /\ IsCommitOf(last.rpcs[1], ctx[last.c])
        /\ Count(last.rpcs, "cancelSave") = 0
        /\ (last.rpcs[1].out = "ok" => was_saved(ctx[last.c]))

\* C1 (amended): leaving the scope of a held context with no exception issues
\* the commit RPC exactly once, first, with the entity as mutated in the
\* block; it issues no discard RPC when that commit succeeds (and exactly one
\* after it when the commit fails); when the commit succeeds was_saved is true.
C1_CleanExitCommitsOnce ==
    CleanExit =>
        /\ Count(last.rpcs, "save") = 1
        /\ IsCommitOf(last.rpcs[1], ctx[last.c])
        /\ IF last.rpcs[1].out = "ok"
           THEN Len(last.rpcs) = 1 /\ was_saved(ctx[last.c])
           ELSE Len(last.rpcs) = 2 /\ Count(last.rpcs, "cancelSave") = 1

C1_Witness ==
    /\ CleanExit
    /\ last.rpcs[1].out = "ok"
    /\ last.rpcs[1].arg.summary = "new"
    /\ was_saved(ctx[last.c])

\* C2: when the block of a held context raises, scope exit issues the
\* discard RPC (cancelSave<Table> with the entity's record id) exactly once,
\* issues no commit RPC, raises nothing of its own and does not swallow: the
\* same exception keeps propagating, whether the discard succeeded or failed.
C2_ExceptionExitDiscardsOnce ==
    FailingExit =>
        /\ Len(last.rpcs) = 1
        /\ IsDiscardOf(last.rpcs[1], ctx[last.c])
        /\ last.raised = NoErr
        /\ ~last.ret
        /\ pending = last.exc

C2_Witness ==
    /\ FailingExit
    /\ last.rpcs[1].out # "ok"
    /\ last.exc = UserError
    /\ pending = UserError

\* C3: when the commit RPC issued at scope exit fails, exactly one discard RPC
\* for the same context follows it, and the error leaving the scope exit is
\* the commit error, also when the discard fails with another error.
C3_CommitFailureDiscardsOnce ==
    (CleanExit /\ last.rpcs[1].out # "ok") =>
        /\ Len(last.rpcs) = 2
        /\ IsDiscardOf(last.rpcs[2], ctx[last.c])
        /\ last.raised = call_method_error(last.rpcs[1].out, 0)
        /\ pending = last.raised

C3_Witness ==
    /\ CleanExit
    /\ Len(last.rpcs) = 2
    /\ last.rpcs[1].out = "fault"
    /\ last.rpcs[2].out = "raw"
    /\ pending = call_method_error("fault", 0)

\* C4: after the scope of an acquired context has exited, on every exit path,
\* have_edit_lock reports false.
C4_ExitedNotHeld ==
    \A c \in DOMAIN ctx :
        (scope[c] = "out" /\ ~edit_lock_failed(ctx[c])) => ~have_edit_lock(ctx[c])
\* the last handler released the lease of its context
Released == last.op \in {"exit", "save", "cancelSave", "saveTable", "cancelSaveTable"}
              /\ last.held /\ ~have_edit_lock(ctx[last.c])
\* ... by a commit RPC that succeeded / by a discard RPC that succeeded
Committed == \E i \in 1..Len(last.rpcs) :
                 last.rpcs[i].method = "save" /\ last.rpcs[i].out = "ok"
Discarded == \E i \in 1..Len(last.rpcs) :
                 last.rpcs[i].method = "cancelSave" /\ last.rpcs[i].out = "ok"

\* C5: for a context whose lease was just released, by scope exit or by any
\* exposed commit/discard path, exactly one of committed (was_saved),
\* discarded (released by a discard) and denied (edit_lock_failed) is true;
\* in particular was_saved is true after every commit RPC that succeeded.
C5_ExactlyOneOutcome ==
    Released =>
        /\ Cardinality({k \in {"committed", "discarded", "denied"} :
               \/ k = "committed" /\ was_saved(ctx[last.c])
               \/ k = "discarded" /\ Discarded
               \/ k = "denied" /\ edit_lock_failed(ctx[last.c])}) = 1
        /\ (Committed => was_saved(ctx[last.c]))

\* the entity the service returns for an edit RPC that succeeded
ServiceResult(rpc) == ServerEntity(rpc.table, rpc.arg[1])

\* the last handler was an edit<Table> call, and what the acquire RPC did
Acquired == last.op = "edit" /\ last.rpcs[1].out = "ok"
Refused  == last.op = "edit" /\ last.rpcs[1].out # "ok"

\* C6: every lease-acquire call that succeeds returns a context entity with
\* have_edit_lock true, edit_lock_failed, was_saved and has_errored false,
\* whose entity is the RPC result.
C6_AcquiredIsHeld ==
    Acquired =>
        /\ last.raised = NoErr
        /\ ctx[last.c].exists
        /\ have_edit_lock(ctx[last.c])
        /\ ~edit_lock_failed(ctx[last.c])
        /\ ~was_saved(ctx[last.c])
        /\ ~has_errored(ctx[last.c])
        /\ ctx[last.c].entity = ServiceResult(last.rpcs[1])

C6_Witness ==
    /\ Acquired
    /\ last.ignore
    /\ have_edit_lock(ctx[last.c])
    /\ ctx[last.c].entity.recordid = Some(1)

\* C7: every lease-acquire call that fails with fault code "22" while
\* ignoreEditLockError=True returns a context (no exception) with
\* edit_lock_failed true, have_edit_lock false, the captured error kept as
\* lock_error, and a fresh empty entity of the table's type, recordid None.
C7_ToleratedDenial ==
    (Refused /\ last.rpcs[1].out = "fault22" /\ last.ignore) =>
        /\ last.raised = NoErr
        /\ pending = NoErr
        /\ ctx[last.c].exists
        /\ edit_lock_failed(ctx[last.c])
        /\ ~have_edit_lock(ctx[last.c])
        /\ IsTTPAPIError(ctx[last.c].lock_error)
        /\ HasFault22(ctx[last.c].lock_error)
        /\ ctx[last.c].entity = create(last.table)
        /\ ctx[last.c].entity.recordid = None

C7_Witness ==
    /\ Refused
    /\ last.ignore
    /\ ctx[last.c].exists
    /\ edit_lock_failed(ctx[last.c])
    /\ ctx[last.c].lock_error.code = "22"

\* C8: a failed lease-acquire call produces a context only when the fault
\* code is "22" and the flag is set; otherwise (flag unset, another fault
\* code, a transport failure) its error propagates to the caller and no
\* context is constructed.
C8_OnlyTolerated22YieldsContext ==
    Refused =>
        IF last.rpcs[1].out = "fault22" /\ last.ignore
        THEN ctx[last.c].exists /\ last.raised = NoErr
        ELSE /\ ~ctx[last.c].exists
             /\ last.raised = call_method_error(last.rpcs[1].out, 0)
             /\ pending = last.raised

C8_Witness ==
    /\ Refused
    /\ last.ignore
    /\ last.rpcs[1].out = "fault"
    /\ ~ctx[last.c].exists
    /\ pending.kind = "TTPAPIError"

\* the last handler was the scope exit of a denied context
DeniedExit == last.op = "exit" /\ edit_lock_failed(ctx[last.c])

\* C9: exiting the scope of a denied context, with or without an active
\* exception, issues no commit and no discard RPC, raises nothing and leaves
\* the context denied and not held.
C9_DeniedExitIsNoOp ==
    DeniedExit =>
        /\ last.rpcs = <<>>
        /\ last.raised = NoErr
        /\ ~last.held
        /\ edit_lock_failed(ctx[last.c])
        /\ ~have_edit_lock(ctx[last.c])
        /\ ~was_saved(ctx[last.c])

C9_Witness ==
    /\ DeniedExit
    /\ last.exc = UserError
    /\ pending = UserError
    /\ last.rpcs = <<>>

\* C10: on scope exit with an active exception, the exception is swallowed
\* if and only if the context is denied, was created with the flag, and the
\* exception is the very lock-error instance this context stored; any other
\* exception keeps propagating.
C10_SwallowsOnlyOwnLockError ==
    (last.op = "exit" /\ last.exc # NoErr) =>
        /\ last.ret <=> (/\ edit_lock_failed(ctx[last.c])
                         /\ ctx[last.c].ignore_lock_error
                         /\ last.exc = ctx[last.c].lock_error)
        /\ pending = IF last.ret THEN NoErr ELSE last.exc

\* the lock error of context 1 passed through the scope of the denied
\* context 2 and was swallowed at the scope of context 1
C10_Witness ==
    /\ last.op = "exit"
    /\ last.c = 1
    /\ last.exc = ctx[1].lock_error
    /\ last.ret
    /\ pending = NoErr
    /\ scope[2] = "out"
    /\ edit_lock_failed(ctx[2])
    /\ has_errored(ctx[2])

\* the handlers that invoke discard / commit on a context explicitly
DiscardOps == {"cancelSave", "cancelSaveTable"}
CommitOps  == {"save", "saveTable"}

\* C11: invoking discard twice on the same held context, by any exposed
\* discard path, issues the discard RPC at most once, and the second
\* invocation returns without error.
C11_SecondDiscardIsNoOp ==
    [][\A c \in DOMAIN ctx :
          (/\ last.op \in DiscardOps /\ last.c = c /\ last.held
           /\ last'.op \in DiscardOps /\ last'.c = c)
          => /\ Count(last.rpcs, "cancelSave") + Count(last'.rpcs, "cancelSave") <= 1
             /\ last'.raised = NoErr]_vars

ExplicitOps == DiscardOps \cup CommitOps

\* C12: once a context is no longer held (committed, discarded or denied),
\* every later explicit commit or discard invoked on it, by the context's
\* save/cancelSave, the client's wrappers or the resolved save<Table> /
\* cancelSave<Table>, issues no RPC and leaves the context's flags unchanged.
C12_NotHeldIsNoOp ==
    [][\A c \in DOMAIN ctx :
          (last'.op \in ExplicitOps /\ last'.c = c /\ ctx[c].exists /\ ~have_edit_lock(ctx[c]))
          => (last'.rpcs = <<>> /\ ctx'[c] = ctx[c])]_vars

\* C13: after a held context was released explicitly by any exposed path
\* (ttp.save(entity), ttp.cancelSave(entity), save<Table>(entity),
\* cancelSave<Table>(entity.recordid)), the scope exit that follows issues
\* neither a commit nor a discard RPC.
C13_ExitAfterExplicitReleaseIsQuiet ==
    (last.op = "exit" /\ released_by[last.c] = "explicit") => last.rpcs = <<>>

\* the scope of a context exited after save<Table>(entity) or
\* cancelSave<Table>(entity.recordid) had given the lease back
C13_Witness ==
    /\ last.op = "exit"
    /\ released_by[last.c] = "explicit"
    /\ ~ctx[last.c].success
    /\ ~was_saved(ctx[last.c])
    /\ scope[last.c] = "out"
    /\ last.rpcs = <<>>
    /\ last.raised = NoErr

\* the error _call_context_method raises for a wrong table: a TTPAPIError
\* built from a message, with no fault of the service behind it
MisuseError == [kind |-> "TTPAPIError", code |-> "", id |-> 0]

\* the last handler was save<T>(entity) or cancelSave<T>(entity.recordid)
\* with an argument that carries the context of a table other than T
WrongTable ==
    /\ last.op \in {"saveTable", "cancelSaveTable"}
    /\ last.table # ctx[last.c].table
    /\ (last.op = "saveTable" \/ RecordidHasContext(ctx[last.c]))

\* C14: the resolved commit or discard operation of table T, invoked with a
\* context entity (or its record id) whose context table is another table,
\* raises an API misuse error, issues no RPC and leaves the context held.
C14_WrongTableRaisesAndKeepsLease ==
    WrongTable =>
        /\ last.raised = MisuseError
        /\ pending = MisuseError
        /\ last.rpcs = <<>>
        /\ have_edit_lock(ctx[last.c]) = last.held

\* cancelSaveTask(defect.recordid) on a held Defect context
C14_Witness ==
    /\ WrongTable
    /\ last.op = "cancelSaveTable"
    /\ last.table = "Task"
    /\ last.held
    /\ have_edit_lock(ctx[last.c])
    /\ last.rpcs = <<>>

\* the handlers that issue their RPCs through a resolved operation
ResolvedOps == {"call", "edit", "exit"} \cup ExplicitOps

\* C15: every RPC issued through a resolved operation (plain call, lease
\* acquire, explicit commit/discard, scope-exit commit/discard) carries as its
\* first argument the cookie the client holds at the moment of the call, also
\* when the callable was cached or the context constructed under another
\* cookie; with no cookie held the RPC is still issued.
C15_RpcCarriesCurrentCookie ==
    last.op \in ResolvedOps =>
        /\ \A i \in 1..Len(last.rpcs) : last.rpcs[i].cookie = last.cookie
        /\ sess.cookie = last.cookie
        /\ last.op \in {"call", "edit"} => Len(last.rpcs) = 1
        /\ (last.op \in {"exit", "save", "cancelSaveTable"} /\ last.held)
               => Len(last.rpcs) >= 1

\* the scope of a context constructed under cookie 1 exits after the client
\* has logged on again and holds cookie 2: the commit RPC carries cookie 2
C15_Witness ==
    /\ last.op = "exit"
    /\ last.held
    /\ made_with[last.c] = Some(1)
    /\ last.cookie = Some(2)
    /\ Len(last.rpcs) = 1
    /\ last.rpcs[1].method = "save"
    /\ last.rpcs[1].cookie = Some(2)

\* C16: after any logoff call returns or raises (the logoff RPC succeeded,
\* failed with 'Session Dropped.' or failed otherwise, tolerated or not), the
\* client holds no cookie.
C16_LogoffClearsCookie ==
    last.op \in {"logoff", "exitClient"} => sess.cookie = None

\* an untolerated logoff whose RPC failed raised, and the cookie is gone
C16_Witness ==
    /\ last.op = "logoff"
    /\ last.held
    /\ ~last.ignore
    /\ last.rpcs[1].out = "urlerror"
    /\ last.raised.kind = "TTPLogonError"
    /\ sess.cookie = None

\* C17: a logoff whose RPC fails with 'Session Dropped.' completes without
\* error whatever ignore_exceptions is; any other failure raises
\* TTPLogonError when ignore_exceptions is unset and raises nothing when set.
C17_LogoffErrors ==
    (last.op = "logoff" /\ last.held) =>
        LET out == last.rpcs[1].out
        IN  /\ out \in {"ok", "dropped"} => last.raised = NoErr
            /\ (out \notin {"ok", "dropped"} /\ last.ignore) => last.raised = NoErr
            /\ (out \notin {"ok", "dropped"} /\ ~last.ignore)
                   => (last.raised.kind = "TTPLogonError" /\ pending = last.raised)

\* an untolerated logoff whose RPC failed with 'Session Dropped.' returned
C17_Witness ==
    /\ last.op = "logoff"
    /\ last.held
    /\ ~last.ignore
    /\ last.rpcs[1].out = "dropped"
    /\ last.raised = NoErr
    /\ pending = NoErr

LogonMethods == {"DatabaseLogon", "ProjectLogon"}

\* C18: when a cookie is held, a logon (DatabaseLogon or ProjectLogon) first
\* issues the logoff RPC with the old cookie and only after it the logon RPC;
\* after a successful logon the held cookie is the one that logon returned,
\* and the old cookie is held afterwards only if the service answered the
\* logon with it again.
C18_LogonReplacesCookie ==
    (last.op = "logon" /\ last.held) =>
        /\ Len(last.rpcs) \in {1, 2}
        /\ last.rpcs[1].method = "DatabaseLogoff"
        /\ last.rpcs[1].cookie = last.cookie
        /\ Len(last.rpcs) = 2 => last.rpcs[2].method = last.table
        /\ last.raised = NoErr =>
               /\ Len(last.rpcs) = 2
               /\ last.rpcs[2].out = "ok"
               /\ sess.cookie = last.rpcs[2].result
        /\ last.raised # NoErr => sess.cookie = None
        /\ sess.cookie = last.cookie =>
               (Len(last.rpcs) = 2 /\ last.rpcs[2].result = last.cookie)

\* ProjectLogon while cookie 1 is held: logoff of cookie 1, then the logon
\* RPC, whose answer 2 is the cookie held afterwards
C18_Witness ==
    /\ last.op = "logon"
    /\ last.table = "ProjectLogon"
    /\ last.cookie = Some(1)
    /\ Len(last.rpcs) = 2
    /\ last.rpcs[1].cookie = Some(1)
    /\ last.rpcs[2].result = Some(2)
    /\ sess.cookie = Some(2)
    /\ last.raised = NoErr

\* C19: leaving the client's own `with` scope issues the logoff RPC exactly
\* when a cookie is held, leaves no cookie held, never raises because the
\* logoff failed, and never swallows the exception leaving the block.
C19_ClientExitLogsOffQuietly ==
    last.op = "exitClient" =>
        /\ Len(last.rpcs) = (IF last.held THEN 1 ELSE 0)
        /\ last.held => /\ last.rpcs[1].method = "DatabaseLogoff"
                        /\ last.rpcs[1].cookie = last.cookie
        /\ sess.cookie = None
        /\ last.raised = NoErr
        /\ ~last.ret
        /\ pending = last.exc

\* the block was left with an exception, the logoff RPC failed: the
\* exception of the block is the one that propagates
C19_Witness ==
    /\ last.op = "exitClient"
    /\ last.held
    /\ last.rpcs[1].out = "fault"
    /\ last.exc = UserError
    /\ pending = UserError
    /\ sess.cookie = None

\* names __getattr__ refuses before it looks at the cache
Dunder(n) == startswith(n, <<"_", "_">>)

\* what C20 says of the cache and of one access, but for the number of lookups
CacheIsStable ==
    /\ DOMAIN cache \subseteq ServiceMethods
    /\ \A n \in DOMAIN cache :
          /\ cache[n].name = n
          /\ cache[n].serial = 1
          /\ Get(lookups, n, 0) = 1
    /\ \A n \in ServiceMethods : Get(lookups, n, 0) >= 1 => n \in DOMAIN cache
    /\ last.op = "getattr" =>
          /\ last.raised = NoErr =>
                 (last.name \in DOMAIN cache /\ last.callable = Some(cache[last.name]))
          /\ (last.held /\ ~Dunder(last.name)) => last.raised = NoErr
          /\ (last.name \notin ServiceMethods /\ ~Dunder(last.name)) =>
                 /\ last.raised = MethodNotFound
                 /\ pending = MethodNotFound
                 /\ last.callable = None

\* C20 (as stated): resolving the same name repeatedly returns the identical
\* cached callable; an entry of the cache is never replaced or removed; the
\* lookup on the service and the construction of the callable happen at most
\* once per name; a name that fails to resolve raises the API error for a
\* method that is not found and adds no cache entry.
C20_LookupOncePerName ==
    /\ CacheIsStable
    /\ \A n \in Names : Get(lookups, n, 0) <= 1

\* C20 (amended): as above, but the lookup happens at most once only for a
\* name that resolves; a name that fails to resolve is looked up on the
\* service again on every access.
C20_LookupOncePerResolvedName ==
    /\ CacheIsStable
    /\ \A n \in ServiceMethods : Get(lookups, n, 0) <= 1
    /\ (last.op = "getattr" /\ last.name \notin ServiceMethods /\ ~Dunder(last.name))
           => Get(lookups, last.name, 0) >= 1

\* cancelSaveDefect was resolved a second time: the callable returned is the
\* one in the cache, built by the single lookup
C20_Witness ==
    /\ last.op = "getattr"
    /\ last.held
    /\ last.name = cancelSave \o Defect
    /\ last.callable = Some(cache[last.name])
    /\ cache[last.name].kind = "cancelSave"
    /\ cache[last.name].table = Defect
    /\ Get(lookups, last.name, 0) = 1
    /\ Get(lookups, get \o Bogus, 0) = 2
    /\ get \o Bogus \notin DOMAIN cache

\* C21: __getattr__ classifies a name by its prefix: "edit" builds the
\* lease-acquire call, "save" the commit call for the table that follows
\* "save", "cancelSave" the discard call for the table that follows
\* "cancelSave", anything else a plain call; the table a context derives from
\* edit<Table> or edit<Table>ByRecordID is the table of save<Table> and
\* cancelSave<Table>, so the context passes the table check of its own
\* commit and discard operations.
C21_PrefixClassification ==
    /\ \A n \in DOMAIN cache :
          /\ n \in {edit \o Defect, edit \o Defect \o ByRecordID} => cache[n].kind = "edit"
          /\ n = save \o Defect => (cache[n].kind = "save" /\ cache[n].table = Defect)
          /\ n = save \o Task => (cache[n].kind = "save" /\ cache[n].table = Task)
          /\ n = cancelSave \o Defect =>
                 (cache[n].kind = "cancelSave" /\ cache[n].table = Defect)
          /\ n = get \o Defect => cache[n].kind = "plain"
    /\ \A c \in DOMAIN ctx : ctx[c].exists => ctx[c].table = Defect
    /\ (last.op \in {"saveTable", "cancelSaveTable"} /\ last.table = Defect) =>
          /\ last.raised = NoErr
          /\ Len(last.rpcs) = 1
          /\ last.rpcs[1].table = ctx[last.c].table

\* a context made by editDefectByRecordID (editDefect was never resolved)
\* was discarded by cancelSaveDefect(entity.recordid)
C21_Witness ==
    /\ last.op = "cancelSaveTable"
    /\ last.held
    /\ edit \o Defect \notin DOMAIN cache
    /\ edit \o Defect \o ByRecordID \in DOMAIN cache
    /\ last.table = Defect
    /\ last.raised = NoErr
    /\ Len(last.rpcs) = 1
    /\ ~have_edit_lock(ctx[last.c])

\* the positions of the array that held a suds Object
ObjectItems == {i \in 1..Len(content.given) : content.given[i].kind = "object"}

\* C22: when an array declared with a base element type is encoded, every
\* object element ends up tagged with the schema's descriptor for its own
\* class name (the declared element descriptor only when the names are
\* equal), the declared type of the array is unchanged, and the order and
\* the number of the elements are preserved.
C22_ElementsTaggedByOwnType ==
    (last.op = "cast" /\ last.raised = NoErr) =>
        /\ content.type = "CEntityArray"
        /\ content.value.name = content.type
        /\ Len(content.value.item) = Len(content.given)
        /\ \A i \in ObjectItems :
              /\ content.value.item[i].kind = "object"
              /\ content.value.item[i].class = content.given[i].class
              /\ content.value.item[i].sxtype =
                     TypeQuery(content.schema, content.given[i].class)
              /\ content.given[i].class \in content.schema =>
                     content.value.item[i].sxtype = Some(content.given[i].class)
        /\ \A i \in 1..Len(content.given) :
              content.given[i].kind = "list" => content.value.item[i] = content.given[i]

\* an array declared as CEntity with a CDefect and then a CTask: each is
\* tagged with its own type
C22_Witness ==
    /\ last.op = "cast"
    /\ last.raised = NoErr
    /\ content.aty = "CEntity"
    /\ content.given = <<Obj("CDefect"), Obj("CTask")>>
    /\ content.value.item[1].sxtype = Some("CDefect")
    /\ content.value.item[2].sxtype = Some("CTask")

\* a type the encoding needs is not in the schema: the declared element
\* type, or the class of an object element
Unresolved ==
    \/ content.aty \notin content.schema
    \/ \E i \in ObjectItems : content.given[i].class \notin content.schema

\* C23: when the class of an element (or the declared element type of the
\* array) cannot be resolved in the schema, encoding fails with a
\* type-resolution error and no element is left tagged with an absent or
\* guessed type.
C23_UnresolvedTypeFails ==
    (last.op = "cast" /\ Unresolved) =>
        /\ last.raised.kind = "TypeNotFound"
        /\ content.value = List(content.given)

\* a logon that got as far as storing its arguments: the implicit logoff
\* did not raise and a ProjectLogon was given a CProject
StoresArguments(method, database_name, o1) ==
    /\ database_logoff(sess, FALSE, o1).raised = NoErr
    /\ ~(method = "ProjectLogon" /\ database_name = None)

\* C24: DatabaseLogon and ProjectLogon called with a username and/or a
\* password set the stored username and the stored password to the supplied
\* values (a value not supplied keeps the stored one), and the logon RPC is
\* issued with those stored values.
C24_LogonStoresSuppliedCredentials ==
    [][\A method \in LogonMethods, database_name \in DatabaseNames,
          username \in Usernames, password \in Passwords,
          o1 \in LogoffOutcomes, o2 \in LogonOutcomes, token \in Tokens :
          ( /\ Logon(method, database_name, username, password, o1, o2, token)
            /\ StoresArguments(method, database_name, o1)
            /\ (username # None \/ password # None) ) =>
              /\ sess'.username = IF username # None THEN username ELSE sess.username
              /\ sess'.password = IF password # None THEN password ELSE sess.password
              /\ \A i \in 1..Len(last'.rpcs) :
                    last'.rpcs[i].method \in LogonMethods =>
                        /\ last'.rpcs[i].arg[2] = sess'.username
                        /\ last'.rpcs[i].arg[3] = sess'.password]_vars

\* C25: getProjectList, with or without explicit username/password and
\* whether it succeeds or fails, leaves the stored username, password and
\* database name and the held token unchanged, and issues its RPC without
\* the session token.
C25_ProjectListKeepsClientState ==
    [][\A username \in Usernames, password \in Passwords, out \in LogonOutcomes :
          GetProjectList(username, password, out) =>
              /\ sess' = sess
              /\ \A i \in 1..Len(last'.rpcs) :
                    /\ last'.rpcs[i].method = "getProjectList"
                    /\ last'.rpcs[i].cookie = None]_vars

\* a logged-on client lists the projects with credentials that are not the
\* stored ones and the service answers with a fault
C25_Witness ==
    /\ last.op = "getProjectList"
    /\ last.held
    /\ sess.cookie # None
    /\ Len(last.rpcs) = 1
    /\ last.rpcs[1].arg # <<sess.username, sess.password>>
    /\ last.raised.kind = "TTPLogonError"

\* C26: a logoff while no token is held issues no RPC, raises nothing and
\* changes no client state; so two logoffs in a row issue the remote logoff
\* at most once.
C26_LogoffWithoutTokenIsNoOp ==
    [][\A ignore_exceptions \in BOOLEAN, out \in LogoffOutcomes :
          DatabaseLogoff(ignore_exceptions, out) =>
              /\ sess.cookie = None =>
                    /\ last'.rpcs = <<>>
                    /\ last'.raised = NoErr
                    /\ pending' = NoErr
                    /\ <<sess, cache, lookups, ctx, stack>>' = <<sess, cache, lookups, ctx, stack>>
              /\ last.op = "logoff" => Len(last.rpcs) + Len(last'.rpcs) <= 1]_vars

\* a logoff found no token on a client that has logged on before
C26_Witness ==
    /\ last.op = "logoff"
    /\ ~last.held
    /\ last.rpcs = <<>>
    /\ sess.cookie = None
    /\ sess.password = Some("alice")

\* the commit RPC issued by the last scope exit failed
ExitCommitFailed ==
    \E i \in 1..Len(last.rpcs) : last.rpcs[i].method = "save" /\ last.rpcs[i].out # "ok"

DeniedIn(es) == {i \in 1..Len(es) : edit_lock_failed(ctx[es[i]])}

\* the scope exit that has just run was left with the lock error the
\* context k stored
ExitedWithLockErrorOf(k) ==
    /\ last.op = "exit"
    /\ last.exc # NoErr
    /\ ctx[k].exists
    /\ last.exc = ctx[k].lock_error

\* C28: with nested tolerant contexts, break_context_on_edit_lock_failure
\* raises the stored lock error of the first denied entity in argument order
\* and returns True when none is denied; the raised error passes through
\* every inner scope whose context did not store it (a held inner context is
\* discarded exactly once, a denied one issues nothing) and is swallowed
\* exactly at the scope of the context that stored it, after which execution
\* continues normally in the enclosing scopes.
C28_BreakUnwindsToOwner ==
    /\ last.op = "break" =>
          IF DeniedIn(last.args) = {}
          THEN pending = NoErr /\ last.ret
          ELSE \E i \in DeniedIn(last.args) :
                  /\ \A j \in DeniedIn(last.args) : i <= j
                  /\ pending = ctx[last.args[i]].lock_error
                  /\ pending # NoErr
                  /\ ~last.ret
    /\ \A k \in DOMAIN ctx :
          ExitedWithLockErrorOf(k) =>
              IF last.c = k
              THEN /\ last.ret
                   /\ last.rpcs = <<>>
                   /\ pending = NoErr
                   /\ \A i \in 1..Len(stack) : scope[stack[i]] = "in"
              ELSE /\ ~last.ret
                   /\ pending = last.exc
                   /\ IF last.held
                      THEN /\ Count(last.rpcs, "cancelSave") = 1
                           /\ Count(last.rpcs, "save") = 0
                      ELSE last.rpcs = <<>>

\* the lock error of the denied outer context 1 passed through the scope of
\* the held inner context 2, which was discarded by its exit, and was
\* swallowed at the scope of context 1
C28_Witness ==
    /\ last.op = "exit"
    /\ last.c = 1
    /\ last.exc = ctx[1].lock_error
    /\ last.ret
    /\ pending = NoErr
    /\ scope[2] = "out"
    /\ ~edit_lock_failed(ctx[2])
    /\ released_by[2] = "exit"
    /\ has_errored(ctx[2])
    /\ ~was_saved(ctx[2])

\* C29: committing through save<Table> with a plain entity that carries no
\* edit context issues the commit RPC without any table or held check and
\* changes the state of no context: a context holding the lock on that
\* record stays held and its scope exit issues the commit RPC again.
C29_PlainSaveBypassesContexts ==
    [][ /\ \A t \in Tables, n \in Tables, r \in RecordIds, o \in ReleaseOutcomes :
              SavePlain(t, n, r, o) =>
                  /\ Len(last'.rpcs) = 1
                  /\ last'.rpcs[1].method = "save"
                  /\ last'.rpcs[1].table = t
                  /\ last'.rpcs[1].arg = ServerEntity(n, r)
                  /\ ctx' = ctx
                  /\ released_by' = released_by
        /\ \A c \in Ctxs, o1 \in ReleaseOutcomes, o2 \in ReleaseOutcomes :
              ( /\ last.op = "savePlain"
                /\ last.raised = NoErr
                /\ stack # <<>>
                /\ stack[Len(stack)] = c
                /\ last.rpcs[1].table = ctx[c].table
                /\ last.rpcs[1].arg.recordid = ctx[c].entity.recordid
                /\ have_edit_lock(ctx[c])
                /\ Exit(o1, o2) ) =>
                  /\ Count(last'.rpcs, "save") = 1
                  /\ IsCommitOf(last'.rpcs[1], ctx[c]) ]_vars

\* inside the scope of a held context a plain entity of the same record was
\* committed with save<Table>, and the context still holds the lock
C29_Witness ==
    /\ last.op = "savePlain"
    /\ last.raised = NoErr
    /\ Len(last.rpcs) = 1
    /\ \E c \in Ctxs :
          /\ scope[c] = "in"
          /\ have_edit_lock(ctx[c])
          /\ ~was_saved(ctx[c])
          /\ last.rpcs[1].table = ctx[c].table
          /\ last.rpcs[1].arg.recordid = ctx[c].entity.recordid
          /\ last.rpcs[1].arg # ctx[c].entity

\* the flags of one context agree: committed contexts and denied contexts
\* are not held, denied contexts are not committed
FlagsAgree(x) ==
    /\ was_saved(x) => ~have_edit_lock(x)
    /\ edit_lock_failed(x) => (~have_edit_lock(x) /\ ~was_saved(x))

\* C30: in every reachable state of a context, under any sequence of
\* explicit commits, discards and scope exits: was_saved implies not
\* have_edit_lock, and edit_lock_failed implies both not have_edit_lock and
\* not was_saved; a denied context (one that stored a lock error) never
\* becomes held or committed.
C30_FlagsStayConsistent ==
    \A c \in DOMAIN ctx :
        ctx[c].exists =>
            /\ FlagsAgree(ctx[c])
            /\ ctx[c].lock_error # NoErr =>
                   /\ edit_lock_failed(ctx[c])
                   /\ ~have_edit_lock(ctx[c])
                   /\ ~was_saved(ctx[c])

\* save<Table> was called with the entity of a denied context and the
\* service answered without error
C30_Witness ==
    /\ last.op = "saveTable"
    /\ last.raised = NoErr
    /\ Len(last.rpcs) = 1
    /\ ctx[last.c].exists
    /\ edit_lock_failed(ctx[last.c])
    /\ ~was_saved(ctx[last.c])
    /\ ~have_edit_lock(ctx[last.c])

\* the service lacks the commit or the discard operation of the table the
\* edit operation `name` is for
CannotRelease(name) ==
    \/ save \o context_table(name) \notin ServiceMethods
    \/ cancelSave \o context_table(name) \notin ServiceMethods

\* C31: constructing an edit context resolves the commit and the discard
\* operation for its table before it issues the acquire RPC: when either
\* cannot be resolved on the service, an API error is raised and no acquire
\* RPC is issued, so no lock is taken that the context could not release.
C31_ResolvesReleaseBeforeAcquire ==
    /\ last.op = "construct" =>
          IF CannotRelease(last.name)
          THEN /\ last.raised.kind = "TTPAPIError"
               /\ last.rpcs = <<>>
               /\ pending = last.raised
          ELSE /\ Len(last.rpcs) = 1
               /\ last.rpcs[1].method = "edit"
               /\ last.rpcs[1].table = context_table(last.name)
    /\ \A c \in DOMAIN ctx :
          ctx[c].exists =>
              /\ save \o ctx[c].table \in ServiceMethods
              /\ cancelSave \o ctx[c].table \in ServiceMethods

\* editTask is resolved and called on a service without cancelSaveTask
C31_Witness ==
    /\ last.op = "construct"
    /\ last.name = edit \o Task
    /\ save \o Task \in ServiceMethods
    /\ cancelSave \o Task \notin ServiceMethods
    /\ last.raised.kind = "TTPAPIError"
    /\ last.rpcs = <<>>
    /\ \A c \in DOMAIN ctx : ~ctx[c].exists

\* C32: after any failed logon (authentication rejected, transport failure,
\* missing credentials, or a failure of the implicit logoff that precedes
\* it), the client holds no token: a failed logon never leaves the previous
\* token or a partial token in place.
C32_FailedLogonHoldsNoToken ==
    (last.op = "logon" /\ last.raised # NoErr) => sess.cookie = None

\* a logged-on client logs on again: the implicit logoff succeeds and the
\* service rejects the logon
C32_Witness ==
    /\ last.op = "logon"
    /\ last.held
    /\ last.cookie # None
    /\ Len(last.rpcs) = 2
    /\ last.rpcs[1].method = "DatabaseLogoff"
    /\ last.rpcs[1].out = "ok"
    /\ last.rpcs[2].method \in LogonMethods
    /\ last.raised.kind = "TTPLogonError"
    /\ sess.cookie = None

====
